---- MODULE Spec2Model ----
(***************************************************************************)
(* Model of log-surgeon-rust: the LogParser that groups lexer tokens into  *)
(* log events (src/src/log_parser/log_parser.rs), the regex-AST to NFA     *)
(* builder and its epsilon closure (src/src/nfa/nfa.rs), and the schema    *)
(* loader (src/src/parser/schema_parser/parser.rs).                         *)
(***************************************************************************)
EXTENDS Integers, Sequences, FiniteSets, TLC

VARIABLES
    tokens,     \* LogParser.tokens : Option<Vec<Token>>
    lexer,      \* LogParser.lexer  : the lexer's observable state
    token,      \* the result of the last self.lexer.get_next_token()
    pc,         \* "idle", or "loop" inside parse_next_log_event's loop
    ret,        \* the value returned by the last completed call
    hist,       \* history: what the lexer delivered and what the calls returned
    ast,        \* the regex AST handed to the NFA builder
    nfa,        \* the NFA under construction
    built,      \* "new", "ok" or the error the last add_ast_to_nfa returned
    calls,      \* the number of add_ast_to_nfa calls made on the NFA
    ec,         \* a call of epsilon_closure: its argument, locals and position
    schema,     \* a schema load: the key-value pairs and the Result<SchemaConfig>
    lex,        \* the byte-level lexer: its stream, position and emitted tokens
    names       \* the last two calls of get_combined_state_names

lpVars  == <<tokens, lexer, token, pc, ret, hist>>
nfaVars == <<ast, nfa, built, calls>>
auxVars == <<ec, schema, lex, names>>
vars    == <<tokens, lexer, token, pc, ret, hist, ast, nfa, built, calls, ec,
             schema, lex, names>>

\* ------------------------------------------------------------------ bounds

\* Tokens the lexer delivers over one run of the parser.
MaxTokens == 3
\* Input streams attached over one run of the parser.
MaxStreams == 2
\* Length of the words on which an NFA and a regex are compared.
MaxWordLen == 3
\* add_ast_to_nfa calls made in a row on one NFA.
MaxCalls == 2

\* ------------------------------------------------------------------ tokens

TokenTypes == {"Timestamp", "Variable", "StaticText", "Whitespace", "Newline"}

NoToken == [type |-> "NoToken", line |-> 0, src |-> 0, pos |-> 0]

\* Option<Vec<Token>>: None, or Some(vec).
OptNone      == [is_some |-> FALSE, vec |-> <<>>]
OptSome(vec) == [is_some |-> TRUE, vec |-> vec]

\* Result<Option<LogEvent>> and Result<()>.
NoEvent == [tokens |-> <<>>, line_range |-> <<0, 0>>, has_timestamp |-> FALSE]
OkEvent(ev) == [kind |-> "Event", err |-> "", event |-> ev]
OkNone      == [kind |-> "Empty", err |-> "", event |-> NoEvent]
OkUnit      == [kind |-> "Unit", err |-> "", event |-> NoEvent]
Err(e)      == [kind |-> "Err", err |-> e, event |-> NoEvent]
NoCall      == [kind |-> "NoCall", err |-> "", event |-> NoEvent]

\* ------------------------------------------------------------------- lexer

\* The lexer after Lexer::new: no input stream attached yet.
Lexer_new == [stream |-> 0, line |-> 1, count |-> 0, eos |-> FALSE, total |-> 0]

\* Lexer::set_input_stream: a new byte source, the line counter back at 1.
Lexer_set_input_stream(lx) ==
    [lx EXCEPT !.stream = lx.stream + 1, !.line = 1, !.count = 0, !.eos = FALSE]

\* The token of type t the lexer emits next: it carries the line on which its
\* lexeme began, and (for identity) its stream and its position in it.
NextToken(lx, t) ==
    [type |-> t, line |-> lx.line, src |-> lx.stream, pos |-> lx.count + 1]

\* What get_next_token may answer: Ok(Some(token)), Ok(None) or Err.
LexSome(t) == [kind |-> "Some", token |-> t]
LexNone    == [kind |-> "None", token |-> NoToken]
LexErr     == [kind |-> "Err", token |-> NoToken]
LexInit    == [kind |-> "Init", token |-> NoToken]

Lexer_get_next_token(lx) ==
    IF lx.stream = 0 THEN {LexErr}
    ELSE IF lx.eos THEN {LexNone}
    ELSE {LexNone, LexErr}
         \cup (IF lx.total < MaxTokens
               THEN {LexSome(NextToken(lx, t)) : t \in TokenTypes}
               ELSE {})

\* The lexer after it answered r: a newline moves it to the next line.
Lexer_after(lx, r) ==
    IF r.kind = "Some"
    THEN [lx EXCEPT !.count = lx.count + 1,
                    !.total = lx.total + 1,
                    !.line = IF r.token.type = "Newline" THEN lx.line + 1 ELSE lx.line]
    ELSE IF r.kind = "None" /\ lx.stream > 0 THEN [lx EXCEPT !.eos = TRUE]
    ELSE lx

\* ----------------------------------------------------------------- history

\* Nothing has happened yet.
HistInit ==
    [op |-> "new", delivered |-> <<>>, nevents |-> 0, internal_erred |-> FALSE,
     single |-> TRUE, pending |-> NoToken]

\* A set_input_* call: `single` stays true only for the first attach of a
\* stream to the fresh parser.
HistSetInput(h, name, first) ==
    [h EXCEPT !.op = name, !.single = h.single /\ first, !.pending = NoToken]

\* One turn of parse_next_log_event: the lexer answered r; when `returned`, the
\* call returned `result`. `delivered` lists the tokens the lexer delivered,
\* `pending` is the Timestamp that ended the last event.
HistParse(h, r, returned, result) ==
    [h EXCEPT
        !.op = "parse",
        !.delivered = IF r.kind = "Some" THEN Append(@, r.token) ELSE @,
        !.nevents = IF returned /\ result.kind = "Event" THEN @ + 1 ELSE @,
        !.internal_erred = @ \/ (returned /\ result.kind = "Err" /\ r.kind # "Err"),
        !.pending = IF returned /\ result.kind = "Event" THEN r.token ELSE @]

\* --------------------------------------------------------------- LogParser

\* A LogEvent::new that reads has_timestamp off the last token.
LogEvent_new_last(toks) ==
    IF toks = <<>>
    THEN Err("LogParserInternalErr")
    ELSE OkEvent([tokens |-> toks,
                  line_range |-> <<toks[1].line, toks[Len(toks)].line>>,
                  has_timestamp |-> (toks[Len(toks)].type = "Timestamp")])

\* A LogEvent::new that takes both ends of line_range from the first token.
LogEvent_new_first_line(toks) ==
    IF toks = <<>>
    THEN Err("LogParserInternalErr")
    ELSE OkEvent([tokens |-> toks,
                  line_range |-> <<toks[1].line, toks[1].line>>,
                  has_timestamp |-> (toks[1].type = "Timestamp")])

\* LogEvent::new
LogEvent_new(toks) ==
    IF toks = <<>>
    THEN Err("LogParserInternalErr")
    ELSE OkEvent([tokens |-> toks,
                  line_range |-> <<toks[1].line, toks[Len(toks)].line>>,
                  has_timestamp |-> (toks[1].type = "Timestamp")])

\* A buffer_token that inserts at the front.
buffer_token_front(tk, t) ==
    OptSome(<<t>> \o (IF tk.is_some THEN tk.vec ELSE <<>>))

\* LogParser::buffer_token: the buffer after the push.
buffer_token(tk, t) ==
    OptSome(Append(IF tk.is_some THEN tk.vec ELSE <<>>, t))

\* An emit that clones the buffer instead of taking it.
emit_without_take(tk) ==
    IF tk.is_some
    THEN [tokens |-> tk, result |-> LogEvent_new(tk.vec)]
    ELSE [tokens |-> tk, result |-> OkNone]

\* An emit that leaves a fresh empty buffer behind when there was none.
emit_resetting_buffer(tk) ==
    IF tk.is_some
    THEN [tokens |-> OptNone, result |-> LogEvent_new(tk.vec)]
    ELSE [tokens |-> OptSome(<<>>), result |-> OkNone]

\* LogParser::emit_buffered_tokens_as_log_event: the buffer after the take and
\* the result.
emit_buffered_tokens_as_log_event(tk) ==
    IF tk.is_some
    THEN [tokens |-> OptNone, result |-> LogEvent_new(tk.vec)]
    ELSE [tokens |-> tk, result |-> OkNone]

\* LogParser::new
LogParser_new ==
    /\ tokens = OptSome(<<>>)
    /\ lexer = Lexer_new
    /\ token = LexInit
    /\ pc = "idle"
    /\ ret = NoCall
    /\ hist = HistInit

\* LogParser::set_input_stream
set_input_stream ==
    /\ pc = "idle"
    /\ lexer.stream < MaxStreams
    /\ lexer' = Lexer_set_input_stream(lexer)
    /\ ret' = OkUnit
    /\ hist' = HistSetInput(hist, "set_input_stream", lexer.stream = 0)
    /\ UNCHANGED <<tokens, token, pc>>

\* LogParser::set_input_file: the buffer is reset before the file is opened;
\* when the open fails the lexer keeps its stream.
set_input_file ==
    /\ pc = "idle"
    /\ tokens' = OptSome(<<>>)
    /\ \/ /\ lexer.stream < MaxStreams
          /\ lexer' = Lexer_set_input_stream(lexer)
          /\ ret' = OkUnit
          /\ hist' = HistSetInput(hist, "set_input_file", lexer.stream = 0)
       \/ /\ lexer' = lexer
          /\ ret' = Err("IOError")
          /\ hist' = HistSetInput(hist, "set_input_file", FALSE)
    /\ UNCHANGED <<token, pc>>

\* parse_next_log_event runs one turn of its loop per step: it asks the lexer
\* for its next answer r and acts on it.
get_next_token(r) ==
    /\ r \in Lexer_get_next_token(lexer)
    /\ token' = r
    /\ lexer' = Lexer_after(lexer, r)

\* A Timestamp with tokens == None: buffered, the loop goes on.
ParseFirstTimestamp ==
    \E t \in TokenTypes : LET r == LexSome(NextToken(lexer, t)) IN
        /\ get_next_token(r)
        /\ r.token.type = "Timestamp"
        /\ ~tokens.is_some
        /\ tokens' = buffer_token(tokens, r.token)
        /\ pc' = "loop"
        /\ ret' = ret
        /\ hist' = HistParse(hist, r, FALSE, ret)

\* A Timestamp otherwise: the buffer is emitted; an error of the emit returns
\* at once (the `?`), else the Timestamp seeds the buffer and the event returns.
ParseTimestamp ==
    \E t \in TokenTypes : LET r == LexSome(NextToken(lexer, t)) IN
        /\ get_next_token(r)
        /\ r.token.type = "Timestamp"
        /\ tokens.is_some
        /\ LET e == emit_buffered_tokens_as_log_event(tokens)
           IN  /\ tokens' = IF e.result.kind = "Err"
                            THEN e.tokens
                            ELSE buffer_token(e.tokens, r.token)
               /\ ret' = e.result
               /\ hist' = HistParse(hist, r, TRUE, e.result)
        /\ pc' = "idle"

\* A ParseOther that ends the event at every Newline.
ParseOther_emit_on_newline ==
    \E t \in TokenTypes : LET r == LexSome(NextToken(lexer, t)) IN
        /\ get_next_token(r)
        /\ r.token.type # "Timestamp"
        /\ IF t = "Newline"
           THEN LET e == emit_buffered_tokens_as_log_event(buffer_token(tokens, r.token))
                IN  /\ tokens' = e.tokens
                    /\ pc' = "idle"
                    /\ ret' = e.result
                    /\ hist' = HistParse(hist, r, TRUE, e.result)
           ELSE /\ tokens' = buffer_token(tokens, r.token)
                /\ pc' = "loop"
                /\ ret' = ret
                /\ hist' = HistParse(hist, r, FALSE, ret)

\* Any other token: buffered, the loop goes on.
ParseOther ==
    \E t \in TokenTypes : LET r == LexSome(NextToken(lexer, t)) IN
        /\ get_next_token(r)
        /\ r.token.type # "Timestamp"
        /\ tokens' = buffer_token(tokens, r.token)
        /\ pc' = "loop"
        /\ ret' = ret
        /\ hist' = HistParse(hist, r, FALSE, ret)

\* End of stream: break, and return the emit's result.
ParseEnd ==
    /\ get_next_token(LexNone)
    /\ LET e == emit_buffered_tokens_as_log_event(tokens)
       IN  /\ tokens' = e.tokens
           /\ ret' = e.result
           /\ hist' = HistParse(hist, LexNone, TRUE, e.result)
    /\ pc' = "idle"

\* The lexer failed: the `?` returns its error, the buffer is kept.
ParseLexerError ==
    /\ get_next_token(LexErr)
    /\ tokens' = tokens
    /\ ret' = Err("LexerError")
    /\ hist' = HistParse(hist, LexErr, TRUE, Err("LexerError"))
    /\ pc' = "idle"

\* --------------------------------------------------------------- regex AST

\* A node of regex_syntax's Ast (and of its ClassSet / ClassSetItem): k is the
\* variant, name the sub-kind, a and b its numbers (code points, repetition
\* counts), f its flag (negated, greedy), sub its children.
Node(k, name, a, b, f, sub) ==
    [k |-> k, name |-> name, a |-> a, b |-> b, f |-> f, sub |-> sub]

NoAst                == Node("None", "", 0, 0, FALSE, <<>>)
Literal(c)           == Node("Literal", "", c, 0, FALSE, <<>>)
Dot                  == Node("Dot", "", 0, 0, FALSE, <<>>)
ClassPerl(kind, neg) == Node("ClassPerl", kind, 0, 0, neg, <<>>)
Concat(asts)         == Node("Concat", "", 0, 0, FALSE, asts)
Alternation(asts)    == Node("Alternation", "", 0, 0, FALSE, asts)
Group(kind, inner)   == Node("Group", kind, 0, 0, FALSE, <<inner>>)
Empty                == Node("Empty", "", 0, 0, FALSE, <<>>)
\* Repetition { op.kind, greedy, ast }: kind is ZeroOrOne, ZeroOrMore,
\* OneOrMore, Exactly(a), AtLeast(a) or Bounded(a, b).
Repetition(kind, a, b, greedy, inner) ==
    Node("Repetition", kind, a, b, greedy, <<inner>>)
\* ClassBracketed { negated, kind }: kind is a ClassSet, here the item of
\* ClassSet::Item or a BinaryOp node.
ClassBracketed(neg, set) == Node("ClassBracketed", "", 0, 0, neg, <<set>>)
ItemLiteral(c)       == Node("Item.Literal", "", c, 0, FALSE, <<>>)
ItemRange(lo, hi)    == Node("Item.Range", "", lo, hi, FALSE, <<>>)
ItemPerl(kind, neg)  == Node("Item.Perl", kind, 0, 0, neg, <<>>)
ItemBracketed(br)    == Node("Item.Bracketed", "", 0, 0, FALSE, <<br>>)
ItemUnion(items)     == Node("Item.Union", "", 0, 0, FALSE, items)
ItemAscii            == Node("Item.Ascii", "", 0, 0, FALSE, <<>>)
SetBinaryOp          == Node("BinaryOp", "", 0, 0, FALSE, <<>>)

\* --------------------------------------------------------------------- NFA

\* The bits set in a u128 written as 32 hexadecimal digits, most significant
\* first: bit i is character i.
Bits(hex) ==
    {i \in 0..127 : (hex[32 - (i \div 4)] \div (2 ^ (i % 4))) % 2 = 1}

DIGIT_TRANSITION ==
    Bits(<<0,0,0,0, 0,0,0,0, 0,0,0,0, 0,0,0,0, 0,3,15,15, 0,0,0,0, 0,0,0,0, 0,0,0,0>>)
SPACE_TRANSITION ==
    Bits(<<0,0,0,0, 0,0,0,0, 0,0,0,0, 0,0,0,0, 0,0,0,0, 0,0,0,1, 0,0,0,0, 3,14,0,0>>)
WORD_TRANSITION ==
    Bits(<<0,7,15,15, 15,15,15,14, 8,7,15,15, 15,15,15,14,
           0,3,15,15, 0,0,0,0, 0,0,0,0, 0,0,0,0>>)
EPSILON_TRANSITION == {}
\* !EPSILON_TRANSITION: every bit of the u128.
DOT_TRANSITION == (0..127) \ EPSILON_TRANSITION

START_STATE  == 0
ACCEPT_STATE == 1

\* Result<()> of a builder method, with the NFA as the call left it.
Done(n)    == [nfa |-> n, err |-> ""]
Fail(n, e) == [nfa |-> n, err |-> e]

\* NFA::new
NFA_new == [states |-> <<START_STATE, ACCEPT_STATE>>, transitions |-> <<>>]

\* A new_state that returns the length after the push as the state's index.
new_state_past_end(n) ==
    [nfa |-> [n EXCEPT !.states = Append(@, Len(@))], state |-> Len(n.states) + 1]

\* NFA::new_state: the NFA after the push and the state pushed.
new_state(n) ==
    [nfa |-> [n EXCEPT !.states = Append(@, Len(@))], state |-> Len(n.states)]

\* A conversion whose loop runs over begin..end, the end excluded.
convert_char_range_exclusive(begin, end) ==
    {c \in begin..(end - 1) : TRUE}

\* Transition::convert_char_range_to_symbol_onehot_encoding(Some((begin, end)))
convert_char_range_to_symbol_onehot_encoding(begin, end) ==
    {c \in begin..end : TRUE}

\* An add_transition that inserts at the front of the list.
add_transition_front(n, from, to, onehot) ==
    LET tr == [from |-> from, to |-> to, symbol_onehot_encoding |-> onehot, tag |-> -1]
    IN  [n EXCEPT !.transitions =
            IF from \in DOMAIN @
            THEN [@ EXCEPT ![from] = <<tr>> \o @]
            ELSE [s \in DOMAIN @ \cup {from} |-> IF s = from THEN <<tr>> ELSE @[s]]]

\* NFA::add_transition: pushed on the list keyed by `from`.
add_transition(n, from, to, onehot) ==
    LET tr == [from |-> from, to |-> to, symbol_onehot_encoding |-> onehot, tag |-> -1]
    IN  [n EXCEPT !.transitions =
            IF from \in DOMAIN @
            THEN [@ EXCEPT ![from] = Append(@, tr)]
            ELSE [s \in DOMAIN @ \cup {from} |-> IF s = from THEN <<tr>> ELSE @[s]]]

\* NFA::add_transition_from_range
add_transition_from_range(n, from, to, begin, end) ==
    add_transition(n, from, to, convert_char_range_to_symbol_onehot_encoding(begin, end))

\* NFA::add_epsilon_transition
add_epsilon_transition(n, from, to) ==
    add_transition(n, from, to, EPSILON_TRANSITION)

\* get_ascii_char: whether the char is ASCII (then `c as u8` is c itself).
is_ascii(c) == c <= 127

\* A get_repetition_range that lowers Exactly(n) to (n, Some(n + 1)).
get_repetition_range_one_more(r) ==
    CASE r.name = "ZeroOrOne"  -> [min |-> 0, has_max |-> TRUE, max |-> 1]
      [] r.name = "ZeroOrMore" -> [min |-> 0, has_max |-> FALSE, max |-> 0]
      [] r.name = "OneOrMore"  -> [min |-> 1, has_max |-> FALSE, max |-> 0]
      [] r.name = "Exactly"    -> [min |-> r.a, has_max |-> TRUE, max |-> r.a + 1]
      [] r.name = "AtLeast"    -> [min |-> r.a, has_max |-> FALSE, max |-> 0]
      [] r.name = "Bounded"    -> [min |-> r.a, has_max |-> TRUE, max |-> r.b]

\* NFA::get_repetition_range: (min, optional max)
get_repetition_range(r) ==
    CASE r.name = "ZeroOrOne"  -> [min |-> 0, has_max |-> TRUE, max |-> 1]
      [] r.name = "ZeroOrMore" -> [min |-> 0, has_max |-> FALSE, max |-> 0]
      [] r.name = "OneOrMore"  -> [min |-> 1, has_max |-> FALSE, max |-> 0]
      [] r.name = "Exactly"    -> [min |-> r.a, has_max |-> TRUE, max |-> r.a]
      [] r.name = "AtLeast"    -> [min |-> r.a, has_max |-> FALSE, max |-> 0]
      [] r.name = "Bounded"    -> [min |-> r.a, has_max |-> TRUE, max |-> r.b]

\* NFA::add_literal (also ClassSetItem::Literal)
add_literal(n, literal, start, end) ==
    IF ~is_ascii(literal.a)
    THEN Fail(n, "NoneASCIICharacters")
    ELSE Done(add_transition_from_range(n, start, end, literal.a, literal.a))

\* NFA::add_dot
add_dot(n, start, end) ==
    Done(add_transition(n, start, end, DOT_TRANSITION))

\* An add_perl that takes \s for \w and \w for \s.
add_perl_swapped(n, perl, start, end) ==
    IF perl.f
    THEN Fail(n, "NegationNotSupported")
    ELSE CASE perl.name = "Digit" -> Done(add_transition(n, start, end, DIGIT_TRANSITION))
           [] perl.name = "Space" -> Done(add_transition(n, start, end, WORD_TRANSITION))
           [] perl.name = "Word"  -> Done(add_transition(n, start, end, SPACE_TRANSITION))

\* NFA::add_perl
add_perl(n, perl, start, end) ==
    IF perl.f
    THEN Fail(n, "NegationNotSupported")
    ELSE CASE perl.name = "Digit" -> Done(add_transition(n, start, end, DIGIT_TRANSITION))
           [] perl.name = "Space" -> Done(add_transition(n, start, end, SPACE_TRANSITION))
           [] perl.name = "Word"  -> Done(add_transition(n, start, end, WORD_TRANSITION))

\* NFA::add_range
add_range(n, range, start, end) ==
    IF ~is_ascii(range.a) \/ ~is_ascii(range.b)
    THEN Fail(n, "NoneASCIICharacters")
    ELSE Done(add_transition_from_range(n, start, end, range.a, range.b))

RECURSIVE add_ast_to_nfa(_, _, _, _)
RECURSIVE add_concat_from(_, _, _, _, _)
RECURSIVE add_alternation_from(_, _, _, _, _)
RECURSIVE add_repetition_min(_, _, _, _, _)
RECURSIVE add_repetition_more(_, _, _, _, _)
RECURSIVE add_repetition_more_into_end(_, _, _, _, _)
RECURSIVE add_class_set_item(_, _, _, _)
RECURSIVE add_union_from(_, _, _, _, _)

\* NFA::add_concat's loop from child idx on, with curr_start as it then is.
add_concat_from(n, asts, idx, curr_start, end) ==
    IF idx > Len(asts) THEN Done(n)
    ELSE LET ns == IF idx = Len(asts)
                   THEN [nfa |-> n, state |-> end]
                   ELSE new_state(n)
             r  == add_ast_to_nfa(ns.nfa, asts[idx], curr_start, ns.state)
         IN  IF r.err # "" THEN r
             ELSE add_concat_from(r.nfa, asts, idx + 1, ns.state, end)

\* An add_concat that chains the children from end to start.
add_concat_backwards(n, concat, start, end) ==
    add_concat_from(n, concat.sub, 1, end, start)

\* NFA::add_concat
add_concat(n, concat, start, end) ==
    add_concat_from(n, concat.sub, 1, start, end)

\* NFA::add_group
add_group(n, group, start, end) ==
    IF group.name = "CaptureIndex"
    THEN add_ast_to_nfa(n, group.sub[1], start, end)
    ELSE Fail(n, "UnsupportedGroupKindType")

\* An add_alternation loop that allocates a branch's end state before its
\* start state.
add_alternation_from_swapped(n, asts, idx, start, end) ==
    IF idx > Len(asts) THEN Done(n)
    ELSE LET s2 == new_state(n)
             s1 == new_state(s2.nfa)
             n1 == add_epsilon_transition(s1.nfa, start, s1.state)
             n2 == add_epsilon_transition(n1, s2.state, end)
             r  == add_ast_to_nfa(n2, asts[idx], s1.state, s2.state)
         IN  IF r.err # "" THEN r
             ELSE add_alternation_from(r.nfa, asts, idx + 1, start, end)

\* NFA::add_alternation's loop from branch idx on.
add_alternation_from(n, asts, idx, start, end) ==
    IF idx > Len(asts) THEN Done(n)
    ELSE LET s1 == new_state(n)
             s2 == new_state(s1.nfa)
             n1 == add_epsilon_transition(s2.nfa, start, s1.state)
             n2 == add_epsilon_transition(n1, s2.state, end)
             r  == add_ast_to_nfa(n2, asts[idx], s1.state, s2.state)
         IN  IF r.err # "" THEN r
             ELSE add_alternation_from(r.nfa, asts, idx + 1, start, end)

\* NFA::add_alternation
add_alternation(n, alternation, start, end) ==
    add_alternation_from(n, alternation.sub, 1, start, end)

\* NFA::add_repetition, the min part for min >= 1: `left` copies are still to
\* be added, the last of them ending at range_bound_state.
add_repetition_min(n, inner, left, start_state, range_bound_state) ==
    IF left = 1
    THEN add_ast_to_nfa(n, inner, start_state, range_bound_state)
    ELSE LET ns == new_state(n)
             r  == add_ast_to_nfa(ns.nfa, inner, start_state, ns.state)
         IN  IF r.err # "" THEN r
             ELSE add_repetition_min(r.nfa, inner, left - 1, ns.state, range_bound_state)

\* NFA::add_repetition, the `for _ in min..max` loop with `left` turns to go.
\* An add_repetition loop over min..max without the intermediate state: each
\* copy is built straight into `end` and the next one starts there.
add_repetition_more_into_end(n, inner, left, start_state, end) ==
    IF left <= 0 THEN Done(n)
    ELSE LET r == add_ast_to_nfa(n, inner, start_state, end)
         IN  IF r.err # "" THEN r
             ELSE add_repetition_more_into_end(r.nfa, inner, left - 1, end, end)

add_repetition_more(n, inner, left, start_state, end) ==
    IF left <= 0 THEN Done(n)
    ELSE LET ns == new_state(n)
             r  == add_ast_to_nfa(ns.nfa, inner, start_state, ns.state)
         IN  IF r.err # "" THEN r
             ELSE add_repetition_more(add_epsilon_transition(r.nfa, ns.state, end),
                                      inner, left - 1, ns.state, end)

\* An add_repetition whose last loop runs over min..=max.
add_repetition_inclusive(n, repetition, start, end) ==
    IF ~repetition.f
    THEN Fail(n, "NonGreedyRepetitionNotSupported")
    ELSE LET range == get_repetition_range(repetition)
             inner == repetition.sub[1]
             ns    == new_state(n)
             range_bound_state == ns.state
             r1 == IF range.min = 0
                   THEN Done(add_epsilon_transition(ns.nfa, start, range_bound_state))
                   ELSE add_repetition_min(ns.nfa, inner, range.min, start,
                                           range_bound_state)
             n2 == add_epsilon_transition(r1.nfa, range_bound_state, end)
         IN  IF r1.err # "" THEN r1
             ELSE IF ~range.has_max
             THEN add_ast_to_nfa(n2, inner, range_bound_state, range_bound_state)
             ELSE IF range.min = range.max THEN Done(n2)
             ELSE add_repetition_more(n2, inner, range.max - range.min + 1,
                                      range_bound_state, end)

\* NFA::add_repetition
add_repetition(n, repetition, start, end) ==
    IF ~repetition.f
    THEN Fail(n, "NonGreedyRepetitionNotSupported")
    ELSE LET range == get_repetition_range(repetition)
             inner == repetition.sub[1]
             ns    == new_state(n)
             range_bound_state == ns.state
             r1 == IF range.min = 0
                   THEN Done(add_epsilon_transition(ns.nfa, start, range_bound_state))
                   ELSE add_repetition_min(ns.nfa, inner, range.min, start,
                                           range_bound_state)
             n2 == add_epsilon_transition(r1.nfa, range_bound_state, end)
         IN  IF r1.err # "" THEN r1
             ELSE IF ~range.has_max
             THEN add_ast_to_nfa(n2, inner, range_bound_state, range_bound_state)
             ELSE IF range.min = range.max THEN Done(n2)
             ELSE add_repetition_more(n2, inner, range.max - range.min,
                                      range_bound_state, end)

\* NFA::add_bracketed
add_bracketed(n, bracketed, start, end) ==
    IF bracketed.f
    THEN Fail(n, "NegationNotSupported")
    ELSE IF bracketed.sub[1].k = "BinaryOp"
    THEN Fail(n, "UnsupportedAstBracketedKind")
    ELSE add_class_set_item(n, bracketed.sub[1], start, end)

\* NFA::add_union's loop from item idx on.
add_union_from(n, items, idx, curr_start, end) ==
    IF idx > Len(items) THEN Done(n)
    ELSE LET ns == IF idx = Len(items)
                   THEN [nfa |-> n, state |-> end]
                   ELSE new_state(n)
             r  == add_class_set_item(ns.nfa, items[idx], curr_start, ns.state)
         IN  IF r.err # "" THEN r
             ELSE add_union_from(r.nfa, items, idx + 1, ns.state, end)

\* An add_union that compiles every item from start to end, as a choice.
RECURSIVE add_union_choice_from(_, _, _, _, _)
add_union_choice_from(n, items, idx, start, end) ==
    IF idx > Len(items) THEN Done(n)
    ELSE LET r == add_class_set_item(n, items[idx], start, end)
         IN  IF r.err # "" THEN r
             ELSE add_union_choice_from(r.nfa, items, idx + 1, start, end)

add_union_choice(n, union, start, end) ==
    add_union_choice_from(n, union.sub, 1, start, end)

\* NFA::add_union
add_union(n, union, start, end) ==
    add_union_from(n, union.sub, 1, start, end)

\* NFA::add_class_set_item
add_class_set_item(n, item, start, end) ==
    CASE item.k = "Item.Literal"   -> add_literal(n, item, start, end)
      [] item.k = "Item.Bracketed" -> add_bracketed(n, item.sub[1], start, end)
      [] item.k = "Item.Range"     -> add_range(n, item, start, end)
      [] item.k = "Item.Perl"      -> add_perl(n, item, start, end)
      [] item.k = "Item.Union"     -> add_union(n, item, start, end)
      [] OTHER                     -> Fail(n, "UnsupportedClassSetType")

\* NFA::add_ast_to_nfa
add_ast_to_nfa(n, a, start, end) ==
    CASE a.k = "Literal"        -> add_literal(n, a, start, end)
      [] a.k = "Dot"            -> add_dot(n, start, end)
      [] a.k = "ClassPerl"      -> add_perl(n, a, start, end)
      [] a.k = "Repetition"     -> add_repetition(n, a, start, end)
      [] a.k = "Concat"         -> add_concat(n, a, start, end)
      [] a.k = "ClassBracketed" -> add_bracketed(n, a, start, end)
      [] a.k = "Alternation"    -> add_alternation(n, a, start, end)
      [] a.k = "Group"          -> add_group(n, a, start, end)
      [] OTHER                  -> Fail(n, "UnsupportedAstNodeType")

\* NFA::epsilon_closure(states): the locals at the head of the while loop.
epsilon_closure_entry(states) ==
    [states |-> states, closure |-> states, stack |-> states, pc |-> "loop"]

\* No call of epsilon_closure was made.
NoClosureCall == [states |-> <<>>, closure |-> <<>>, stack |-> <<>>, pc |-> "idle"]

\* A pop that leaves the state on the stack.
pop_peek(stack) ==
    [state |-> stack[Len(stack)], stack |-> stack]

\* Vec::pop on a non-empty stack: the state popped and the stack left.
pop(stack) ==
    [state |-> stack[Len(stack)], stack |-> SubSeq(stack, 1, Len(stack) - 1)]

\* `closure.contains(&to_state)`
contains(vec, x) == \E i \in 1..Len(vec) : vec[i] = x

\* A for loop over the transitions that follows every edge, whatever its label.
RECURSIVE follow_any_edge(_, _, _, _)
follow_any_edge(transitions, i, closure, stack) ==
    IF i > Len(transitions) THEN [closure |-> closure, stack |-> stack]
    ELSE LET to_state == transitions[i].to
         IN  IF ~contains(closure, to_state)
             THEN follow_any_edge(transitions, i + 1,
                                  Append(closure, to_state), Append(stack, to_state))
             ELSE follow_any_edge(transitions, i + 1, closure, stack)

\* epsilon_closure's for loop over the transitions of the popped state, from
\* the i-th on: the closure and the stack when it ends.
RECURSIVE follow_epsilon(_, _, _, _)
follow_epsilon(transitions, i, closure, stack) ==
    IF i > Len(transitions) THEN [closure |-> closure, stack |-> stack]
    ELSE LET to_state == transitions[i].to
         IN  IF transitions[i].symbol_onehot_encoding = EPSILON_TRANSITION
                /\ ~contains(closure, to_state)
             THEN follow_epsilon(transitions, i + 1,
                                 Append(closure, to_state), Append(stack, to_state))
             ELSE follow_epsilon(transitions, i + 1, closure, stack)

\* The builder and the closure are idle while the parser runs.
NfaIdle ==
    /\ ast = NoAst
    /\ nfa = NFA_new
    /\ built = "new"
    /\ calls = 0

\* No schema was loaded.
NoSchema == [kv_pairs |-> <<>>, loaded |-> FALSE, err |-> "", config |-> <<>>]

\* No byte stream is attached to a lexer.
NoLexer == [config |-> <<>>, nfas |-> <<>>, input |-> <<>>, pos |-> 0,
            line |-> 1, out |-> <<>>, pc |-> "detached", n |-> 0,
            active |-> {}, found |-> FALSE, len |-> 0, tag |-> 0]

\* get_combined_state_names has not been called.
NoNamesCall == [states |-> <<>>, result |-> <<>>, returned |-> FALSE]

NoNames == [last |-> NoNamesCall, previous |-> NoNamesCall]

AuxIdle ==
    /\ ec = NoClosureCall
    /\ schema = NoSchema
    /\ lex = NoLexer
    /\ names = NoNames

Init ==
    /\ LogParser_new
    /\ NfaIdle
    /\ AuxIdle

Next ==
    \/ set_input_stream /\ UNCHANGED <<nfaVars, auxVars>>
    \/ set_input_file /\ UNCHANGED <<nfaVars, auxVars>>
    \/ ParseFirstTimestamp /\ UNCHANGED <<nfaVars, auxVars>>
    \/ ParseTimestamp /\ UNCHANGED <<nfaVars, auxVars>>
    \/ ParseOther /\ UNCHANGED <<nfaVars, auxVars>>
    \/ ParseEnd /\ UNCHANGED <<nfaVars, auxVars>>
    \/ ParseLexerError /\ UNCHANGED <<nfaVars, auxVars>>

Spec == Init /\ [][Next]_vars

\* ------------------------------------------------------ the builder's inputs

\* The regexes handed to the builder: every nesting of two operators over the
\* leaves, three in the shapes that share a state with a loop or a chain, and
\* the constructs the builder rejects.
AstLeaves ==
    {Literal(97), Literal(98), Dot, ClassPerl("Digit", FALSE),
     ClassBracketed(FALSE, ItemRange(97, 98)),
     ClassBracketed(FALSE, ItemUnion(<<ItemLiteral(97), ItemLiteral(98)>>))}

RepetitionOps ==
    {<<"ZeroOrOne", 0, 0>>, <<"ZeroOrMore", 0, 0>>, <<"OneOrMore", 0, 0>>,
     <<"Exactly", 2, 0>>, <<"AtLeast", 2, 0>>, <<"Bounded", 0, 2>>,
     <<"Bounded", 1, 2>>}

Unary(S) ==
    {Repetition(op[1], op[2], op[3], TRUE, x) : op \in RepetitionOps, x \in S}
    \cup {Group("CaptureIndex", x) : x \in S}

Binary(S, T) ==
    {Concat(<<x, y>>) : x \in S, y \in T}
    \cup {Alternation(<<x, y>>) : x \in S, y \in T}

AstDepth1 == AstLeaves \cup Unary(AstLeaves) \cup Binary(AstLeaves, AstLeaves)

AstDepth2 ==
    Unary(AstDepth1)
    \cup Binary({Literal(97)}, AstDepth1)
    \cup Binary(AstDepth1, {Literal(98)})

AstRejected ==
    {ClassPerl("Digit", TRUE), Literal(233), Empty,
     ClassBracketed(TRUE, ItemLiteral(97)),
     ClassBracketed(FALSE, SetBinaryOp),
     ClassBracketed(FALSE, ItemAscii),
     ClassBracketed(FALSE, ItemRange(97, 233)),
     Group("NonCapturing", Literal(97)),
     Repetition("ZeroOrMore", 0, 0, FALSE, Literal(97)),
     Concat(<<Literal(97), ClassPerl("Word", TRUE)>>),
     Alternation(<<Literal(97), Literal(233)>>),
     Repetition("Exactly", 2, 0, TRUE, ClassPerl("Space", TRUE))}

\* The regexes of the builder's unit tests: `<\d>`, `\d|a|bcd`,
\* `[a-c3-9[A-X]]`, and the repetitions of `a`.
ConcatScenario ==
    Concat(<<Literal(60), ClassPerl("Digit", FALSE), Literal(62)>>)

AlternationScenario ==
    Alternation(<<ClassPerl("Digit", FALSE), Literal(97),
                  Concat(<<Literal(98), Literal(99), Literal(100)>>)>>)

BracketedScenario ==
    ClassBracketed(FALSE,
        ItemUnion(<<ItemRange(97, 99), ItemRange(51, 57),
                    ItemBracketed(ClassBracketed(FALSE, ItemRange(65, 88)))>>))

RepetitionOf(kind, a, b) == Repetition(kind, a, b, TRUE, Literal(97))

RepetitionScenarios ==
    {RepetitionOf("Bounded", 3, 6), RepetitionOf("Bounded", 0, 3),
     RepetitionOf("Bounded", 0, 1), RepetitionOf("Exactly", 3, 0),
     RepetitionOf("AtLeast", 3, 0), RepetitionOf("ZeroOrMore", 0, 0),
     RepetitionOf("OneOrMore", 0, 0), RepetitionOf("AtLeast", 1, 0)}

AstScenarios ==
    {Literal(38), ClassPerl("Space", FALSE), ClassPerl("Word", FALSE),
     ConcatScenario, AlternationScenario, BracketedScenario,
     ClassBracketed(FALSE, ItemPerl("Word", FALSE)),
     ClassBracketed(FALSE, ItemUnion(<<ItemLiteral(97), ItemPerl("Digit", FALSE),
                                       ItemUnion(<<ItemLiteral(98), ItemLiteral(99)>>)>>))}
    \cup RepetitionScenarios

\* Repetitions of a fixed count k = 0, 1, 2, 3 over the shapes of depth 1.
AstExactly ==
    {Repetition("Exactly", k, 0, TRUE, x) : k \in 0..3, x \in AstDepth1}
    \cup {Repetition("Bounded", k, k, TRUE, x) : k \in 0..2, x \in AstLeaves}

\* The constructs the builder does not support.
Unsupported ==
    {ClassPerl("Digit", TRUE), ClassBracketed(TRUE, ItemLiteral(97)),
     ClassBracketed(FALSE, ItemPerl("Space", TRUE)),
     Repetition("ZeroOrOne", 0, 0, FALSE, Literal(97)),
     Group("NonCapturing", Literal(97)), Group("CaptureName", Literal(97)),
     Literal(233)}

\* An unsupported construct under each operator, and under the repetitions of
\* every kind of bounds.
AstUnsupported ==
    Unsupported
    \cup {Repetition(op[1], op[2], op[3], TRUE, x) :
            op \in RepetitionOps \cup {<<"Exactly", 0, 0>>, <<"Bounded", 0, 0>>,
                                       <<"Exactly", 1, 0>>, <<"AtLeast", 0, 0>>},
            x \in Unsupported}
    \cup {Group("CaptureIndex", x) : x \in Unsupported}
    \cup {Concat(<<x, Literal(97)>>) : x \in Unsupported}
    \cup {Concat(<<Literal(97), Literal(98), x>>) : x \in Unsupported}
    \cup {Alternation(<<Literal(97), x>>) : x \in Unsupported}
    \cup {ClassBracketed(FALSE, ItemUnion(<<ItemLiteral(97), ItemBracketed(x)>>)) :
            x \in {ClassBracketed(TRUE, ItemLiteral(97))}}
    \cup {Concat(<<Literal(97), Repetition("Exactly", 0, 0, TRUE, x)>>) :
            x \in Unsupported}

Star(x) == Repetition("ZeroOrMore", 0, 0, TRUE, x)
Plus(x) == Repetition("OneOrMore", 0, 0, TRUE, x)
Opt(x)  == Repetition("ZeroOrOne", 0, 0, TRUE, x)

\* Loops and chains nested three and four deep, whose inner fragments start
\* or end on a state of the enclosing one: `(a*b*)*`, `(a?b)+`,
\* `((a|b)*a){2}`, `(a+|b?)*`, `a(b*a)*`, `((a*)+)?`, `(a{1,2}){0,2}`,
\* `([a]|\d)*b`, `(a*){2,}`, `(a|b*)(b|a?)`, `((ab)?a){1,2}`, `(a*b){0,2}a`.
AstNested ==
    {Star(Concat(<<Star(Literal(97)), Star(Literal(98))>>)),
     Plus(Concat(<<Opt(Literal(97)), Literal(98)>>)),
     Repetition("Exactly", 2, 0, TRUE,
         Group("CaptureIndex",
             Concat(<<Star(Alternation(<<Literal(97), Literal(98)>>)), Literal(97)>>))),
     Star(Alternation(<<Plus(Literal(97)), Opt(Literal(98))>>)),
     Concat(<<Literal(97), Star(Concat(<<Star(Literal(98)), Literal(97)>>))>>),
     Opt(Plus(Group("CaptureIndex", Star(Literal(97))))),
     Repetition("Bounded", 0, 2, TRUE,
         Group("CaptureIndex", Repetition("Bounded", 1, 2, TRUE, Literal(97)))),
     Concat(<<Star(Alternation(<<ClassBracketed(FALSE, ItemLiteral(97)),
                                 ClassPerl("Digit", FALSE)>>)), Literal(98)>>),
     Repetition("AtLeast", 2, 0, TRUE, Group("CaptureIndex", Star(Literal(97)))),
     Concat(<<Alternation(<<Literal(97), Star(Literal(98))>>),
              Alternation(<<Literal(98), Opt(Literal(97))>>)>>),
     Repetition("Bounded", 1, 2, TRUE,
         Concat(<<Opt(Concat(<<Literal(97), Literal(98)>>)), Literal(97)>>)),
     Concat(<<Repetition("Bounded", 0, 2, TRUE,
                  Concat(<<Star(Literal(97)), Literal(98)>>)), Literal(97)>>)}

\* Bracket classes of one range, from the narrowest to the widest the
\* regex parser yields (it rejects a range whose start is above its end):
\* `[a-a]`, `[\x00-\x00]`, `[\x7f-\x7f]`, `[\x00-\x7f]`, `[0-b]`.
AstRanges ==
    {ClassBracketed(FALSE, ItemRange(r[1], r[2])) :
        r \in {<<97, 97>>, <<0, 0>>, <<127, 127>>, <<0, 127>>, <<48, 98>>}}

Asts ==
    AstDepth1 \cup AstDepth2 \cup AstRejected \cup AstScenarios \cup AstExactly
    \cup AstUnsupported \cup AstNested \cup AstRanges

\* NFA::new(), then add_ast_to_nfa(ast, START_STATE, ACCEPT_STATE).
AddAst ==
    /\ built = "new"
    /\ LET r == add_ast_to_nfa(nfa, ast, START_STATE, ACCEPT_STATE)
       IN  /\ nfa' = r.nfa
           /\ built' = IF r.err = "" THEN "ok" ELSE r.err
    /\ calls' = calls + 1
    /\ UNCHANGED <<ast, tokens, lexer, token, pc, ret, hist>>
    /\ UNCHANGED auxVars

InitNFA ==
    /\ LogParser_new
    /\ ast \in Asts
    /\ nfa = NFA_new
    /\ built = "new"
    /\ calls = 0
    /\ AuxIdle

NextNFA == AddAst

SpecNFA == InitNFA /\ [][NextNFA]_vars

\* ------------------------------------------------ calls in a row on one NFA

\* The regexes compiled one after the other into the same NFA.
CallAsts ==
    {Literal(97), Literal(98),
     Concat(<<Literal(97), Literal(98)>>),
     Alternation(<<Literal(97), Dot>>),
     Repetition("ZeroOrMore", 0, 0, TRUE, Literal(97)),
     Repetition("Bounded", 1, 2, TRUE, Literal(98)),
     ClassBracketed(FALSE, ItemUnion(<<ItemLiteral(97), ItemLiteral(98)>>)),
     ClassPerl("Digit", TRUE),
     Concat(<<Literal(97), ClassPerl("Word", TRUE)>>)}

\* The states of the NFA: what a caller can pass as start and end.
ExistingStates(n) == {n.states[i] : i \in 1..Len(n.states)}

\* add_ast_to_nfa(a, start, end) on the NFA as the calls before left it.
AddAstCall ==
    /\ calls < MaxCalls
    /\ \E a \in CallAsts, start \in ExistingStates(nfa), end \in ExistingStates(nfa) :
          LET r == add_ast_to_nfa(nfa, a, start, end)
          IN  /\ ast' = a
              /\ nfa' = r.nfa
              /\ built' = IF r.err = "" THEN "ok" ELSE r.err
    /\ calls' = calls + 1
    /\ UNCHANGED <<tokens, lexer, token, pc, ret, hist>>
    /\ UNCHANGED auxVars

NextCalls == AddAstCall

SpecCalls == Init /\ [][NextCalls]_vars

\* ------------------------------------------------------- epsilon closure

\* States in the vector handed to epsilon_closure.
MaxSeeds == 2

\* The NFA of the closure's unit test: thirteen states, the epsilon edges
\* 0->1, 1->2, 0->2, 3->5, 3->4, 4->6, 6->3 and the edge 2 -a-> 3.
RECURSIVE new_states(_, _)
new_states(n, k) == IF k = 0 THEN n ELSE new_states(new_state(n).nfa, k - 1)

ClosureTestNfa ==
    LET n0 == new_states(NFA_new, 11)
        n1 == add_epsilon_transition(n0, START_STATE, ACCEPT_STATE)
        n2 == add_epsilon_transition(n1, ACCEPT_STATE, 2)
        n3 == add_epsilon_transition(n2, START_STATE, 2)
        n4 == add_transition(n3, 2, 3, {97})
        n5 == add_epsilon_transition(n4, 3, 5)
        n6 == add_epsilon_transition(n5, 3, 4)
        n7 == add_epsilon_transition(n6, 4, 6)
    IN  add_epsilon_transition(n7, 6, 3)

\* The regexes whose NFAs the closure is taken on: nested loops among them.
ClosureAsts ==
    {Literal(97),
     Repetition("ZeroOrMore", 0, 0, TRUE, Literal(97)),
     Repetition("ZeroOrMore", 0, 0, TRUE,
         Group("CaptureIndex", Repetition("ZeroOrMore", 0, 0, TRUE, Literal(97)))),
     Repetition("OneOrMore", 0, 0, TRUE,
         Group("CaptureIndex", Repetition("ZeroOrOne", 0, 0, TRUE, Literal(97)))),
     Repetition("ZeroOrMore", 0, 0, TRUE,
         Alternation(<<Repetition("ZeroOrMore", 0, 0, TRUE, Literal(97)), Literal(98)>>)),
     Alternation(<<Literal(97), Concat(<<Literal(98), Dot>>)>>),
     Repetition("Bounded", 0, 2, TRUE, Literal(97)),
     Concat(<<Repetition("ZeroOrOne", 0, 0, TRUE, Literal(97)),
              Repetition("ZeroOrMore", 0, 0, TRUE, Literal(98))>>)}

\* The vectors of at most k states of S.
Vectors(S, k) == UNION {[1..j -> S] : j \in 0..k}

\* The call epsilon_closure(states) begins.
epsilon_closure_call ==
    /\ ec.pc = "idle"
    /\ \E states \in Vectors(ExistingStates(nfa), MaxSeeds) :
          ec' = epsilon_closure_entry(states)
    /\ UNCHANGED <<lpVars, nfaVars, schema, lex, names>>

\* One turn of the while loop: pop a state and follow its epsilon edges.
epsilon_closure_turn ==
    /\ ec.pc = "loop"
    /\ ec.stack # <<>>
    /\ LET p == pop(ec.stack)
           r == IF p.state \in DOMAIN nfa.transitions
                THEN follow_epsilon(nfa.transitions[p.state], 1, ec.closure, p.stack)
                ELSE [closure |-> ec.closure, stack |-> p.stack]
       IN  ec' = [ec EXCEPT !.closure = r.closure, !.stack = r.stack]
    /\ UNCHANGED <<lpVars, nfaVars, schema, lex, names>>

\* The stack is empty: the loop ends and the closure is returned.
epsilon_closure_return ==
    /\ ec.pc = "loop"
    /\ ec.stack = <<>>
    /\ ec' = [ec EXCEPT !.pc = "done"]
    /\ UNCHANGED <<lpVars, nfaVars, schema, lex, names>>

\* An NFA the builder made, or the NFA of the unit test.
InitClosure ==
    /\ LogParser_new
    /\ \/ /\ ast \in ClosureAsts
          /\ nfa = add_ast_to_nfa(NFA_new, ast, START_STATE, ACCEPT_STATE).nfa
          /\ built = "ok"
          /\ calls = 1
       \/ /\ ast = NoAst
          /\ nfa = ClosureTestNfa
          /\ built = "new"
          /\ calls = 0
    /\ ec = NoClosureCall
    /\ schema = NoSchema
    /\ lex = NoLexer
    /\ names = NoNames

NextClosure ==
    \/ epsilon_closure_call
    \/ epsilon_closure_turn
    \/ epsilon_closure_return

SpecClosure == InitClosure /\ [][NextClosure]_vars

\* The call runs on: no turn of the loop is put off for ever.
SpecClosureFair == SpecClosure /\ WF_vars(NextClosure)

\* --------------------------------------------------- LogParser: properties

\* The step is a turn of parse_next_log_event that received a Timestamp.
ReceivedTimestamp ==
    /\ hist'.op = "parse"
    /\ Len(hist'.delivered) = Len(hist.delivered) + 1
    /\ token'.kind = "Some"
    /\ token'.token.type = "Timestamp"

\* The step is a turn of parse_next_log_event on which the lexer reported the
\* end of the stream.
ReachedEnd ==
    /\ hist'.op = "parse"
    /\ token'.kind = "None"

\* The step is a turn of parse_next_log_event that returned an event.
ReturnedEvent ==
    /\ hist'.op = "parse"
    /\ hist'.nevents = hist.nevents + 1

IsPrefix(s, t) ==
    /\ Len(s) <= Len(t)
    /\ \A i \in 1..Len(s) : s[i] = t[i]

Types(toks) == [i \in 1..Len(toks) |-> toks[i].type]

\* The token types of `2024-01-02 hello id=42\n2024-01-03 bye\n`.
Scenario ==
    <<"Timestamp", "Whitespace", "StaticText", "Whitespace", "StaticText", "Newline",
      "Timestamp", "Whitespace", "StaticText", "Newline">>

\* The lexer of a fresh parser, with its first stream attached, has so far
\* delivered a prefix of the scenario (and reports the end only after all of it).
InScenario ==
    /\ hist.single
    /\ lexer.stream = 1
    /\ IsPrefix(Types(hist.delivered), Scenario)
    /\ lexer.eos => Len(hist.delivered) = Len(Scenario)

\* C2: in the end-to-end scenario no call returns an error, the calls return
\* exactly two events and then empty, event 1 is the six tokens of line 1,
\* event 2 the four tokens of line 2 with line range (2,2), each starting with
\* its Timestamp.
C2_EndToEndScenario ==
    InScenario =>
        /\ ~hist.internal_erred
        /\ hist.nevents = IF Len(hist.delivered) < 7 THEN 0
                          ELSE IF lexer.eos THEN 2 ELSE 1
        /\ (hist.op = "parse" /\ ret.kind = "Event" /\ hist.nevents = 1) =>
              /\ ret.event.tokens = SubSeq(hist.delivered, 1, 6)
              /\ ret.event.has_timestamp
        /\ (hist.op = "parse" /\ ret.kind = "Event" /\ hist.nevents = 2) =>
              /\ ret.event.tokens = SubSeq(hist.delivered, 7, 10)
              /\ ret.event.has_timestamp
              /\ ret.event.line_range = <<2, 2>>
        /\ (hist.op = "parse" /\ ret.kind = "Empty") =>
              lexer.eos /\ hist.nevents = 2

\* C3: a Timestamp received while the buffer holds no tokens is pushed onto the
\* buffer and the loop goes on: nothing is returned for it.
C3_TimestampOnEmptyBufferContinues ==
    [][(ReceivedTimestamp /\ tokens.vec = <<>>) =>
          /\ tokens' = OptSome(<<token'.token>>)
          /\ pc' = "loop"
          /\ ret' = ret]_vars

\* C4: a Timestamp received while the buffer holds at least one token returns
\* an event holding exactly the buffered tokens in order, and leaves exactly
\* that Timestamp in the buffer.
C4_TimestampEmitsBuffer ==
    [][(ReceivedTimestamp /\ tokens.vec # <<>>) =>
          /\ pc' = "idle"
          /\ ret'.kind = "Event"
          /\ ret'.event.tokens = tokens.vec
          /\ tokens' = OptSome(<<token'.token>>)]_vars

\* A Timestamp has just ended an event of two or more tokens.
C4_Witness ==
    /\ hist.op = "parse" /\ pc = "idle"
    /\ token.kind = "Some" /\ token.token.type = "Timestamp"
    /\ ret.kind = "Event" /\ Len(ret.event.tokens) >= 2
    /\ tokens = OptSome(<<token.token>>)

\* C5: at the end of the stream the call returns the buffered tokens as the
\* final event when there are any, and empty (not an error) when there are none.
C5_EndOfStream ==
    [][ReachedEnd =>
          /\ pc' = "idle"
          /\ IF tokens.vec # <<>>
             THEN ret'.kind = "Event" /\ ret'.event.tokens = tokens.vec
             ELSE ret'.kind = "Empty"]_vars

\* C6: a returned event has tokens, and has_timestamp says whether the first
\* of them is a Timestamp.
C6_EventNonEmptyHasTimestamp ==
    ret.kind = "Event" =>
        /\ ret.event.tokens # <<>>
        /\ ret.event.has_timestamp <=> (ret.event.tokens[1].type = "Timestamp")

\* An event of two tokens or more that starts with a Timestamp was returned.
C6_Witness ==
    /\ ret.kind = "Event"
    /\ Len(ret.event.tokens) >= 2
    /\ ret.event.has_timestamp
    /\ ret.event.tokens[1].type = "Timestamp"

\* C7: in a returned event no token after the first is a Timestamp, whatever
\* calls came before.
C7_TimestampOnlyFirst ==
    ret.kind = "Event" =>
        \A i \in 2..Len(ret.event.tokens) : ret.event.tokens[i].type # "Timestamp"

\* An event that starts with a Timestamp of the first stream and goes on with
\* a token of the second was returned.
C7_Witness ==
    /\ ret.kind = "Event"
    /\ Len(ret.event.tokens) >= 2
    /\ ret.event.tokens[1].type = "Timestamp"
    /\ ret.event.tokens[1].src = 1
    /\ ret.event.tokens[2].src = 2

\* C8: an event is returned only at a Timestamp or at the end of the stream;
\* the Timestamp comes right after the event's last token in the lexer's token
\* stream, is alone in the buffer afterwards, and is the first token of the
\* next event returned while the same input stays attached.
C8_EventsMaximal ==
    [][ReturnedEvent =>
          /\ ret'.kind = "Event"
          /\ token'.kind \in {"None", "Some"}
          /\ token'.kind = "Some" =>
                /\ token'.token.type = "Timestamp"
                /\ tokens' = OptSome(<<token'.token>>)
                /\ hist'.delivered[Len(hist'.delivered)] = token'.token
                /\ hist.delivered[Len(hist.delivered)] =
                       ret'.event.tokens[Len(ret'.event.tokens)]
          /\ hist.pending # NoToken => ret'.event.tokens[1] = hist.pending]_vars

\* The second event returned starts with the Timestamp that ended the first,
\* and was itself ended by a Timestamp.
C8_Witness ==
    /\ hist.op = "parse"
    /\ ret.kind = "Event"
    /\ hist.nevents = 2
    /\ ret.event.tokens[1].type = "Timestamp"
    /\ ret.event.tokens[1].pos = 2
    /\ token.kind = "Some"
    /\ hist.pending = token.token

\* C9: a returned event's line range is ordered and holds the line of each of
\* its tokens.
C9_LineRange ==
    ret.kind = "Event" =>
        /\ ret.event.line_range[1] <= ret.event.line_range[2]
        /\ \A i \in 1..Len(ret.event.tokens) :
              /\ ret.event.line_range[1] <= ret.event.tokens[i].line
              /\ ret.event.tokens[i].line <= ret.event.line_range[2]

\* C10: after set_input_file or set_input_stream no returned event holds a
\* token of an earlier input.
C10_BufferResetOnNewInput ==
    ret.kind = "Event" =>
        \A i \in 1..Len(ret.event.tokens) : ret.event.tokens[i].src = lexer.stream

\* --------------------------------------------------------- NFA: properties

\* The characters words are made of, and the words compared.
Sigma == {48, 97, 98}
Words == UNION {[1..k -> Sigma] : k \in 0..MaxWordLen}

\* The outgoing edges of state s.
Edges(n, s) ==
    IF s \in DOMAIN n.transitions
    THEN {n.transitions[s][i] : i \in 1..Len(n.transitions[s])}
    ELSE {}

\* The states reached from S by epsilon edges alone.
RECURSIVE EpsReach(_, _)
EpsReach(n, S) ==
    LET T == S \cup {tr.to : tr \in {e \in UNION {Edges(n, s) : s \in S} :
                                          e.symbol_onehot_encoding = {}}}
    IN  IF T = S THEN S ELSE EpsReach(n, T)

\* The states reached from S on character c, by an edge whose label holds c.
Move(n, S, c) ==
    {tr.to : tr \in {e \in UNION {Edges(n, s) : s \in S} :
                          c \in e.symbol_onehot_encoding}}

\* The states the NFA is in after the characters of w from position i on.
RECURSIVE Run(_, _, _, _)
Run(n, S, w, i) ==
    IF i > Len(w) THEN S
    ELSE Run(n, EpsReach(n, Move(n, S, w[i])), w, i + 1)

\* w drives the NFA from `from` to `to`.
Drives(n, from, to, w) == to \in Run(n, EpsReach(n, {from}), w, 1)

AcceptedWords(n) == {w \in Words : Drives(n, START_STATE, ACCEPT_STATE, w)}

\* The language of a regex, cut at MaxWordLen.
PerlChars(kind) ==
    CASE kind = "Digit" -> 48..57
      [] kind = "Space" -> {9, 10, 11, 12, 13, 32}
      [] kind = "Word"  -> (48..57) \cup (65..90) \cup (97..122) \cup {95}

OneChar(C) == {<<c>> : c \in C \cap Sigma}

Cat(A, B) ==
    {p[1] \o p[2] : p \in {q \in A \X B : Len(q[1]) + Len(q[2]) <= MaxWordLen}}

RECURSIVE Pow(_, _)
Pow(L, k) == IF k = 0 THEN {<<>>} ELSE Cat(L, Pow(L, k - 1))

RepMin(a) ==
    CASE a.name \in {"ZeroOrOne", "ZeroOrMore"} -> 0
      [] a.name = "OneOrMore" -> 1
      [] OTHER -> a.a

\* The largest count that can add a word of MaxWordLen characters or fewer.
RepMax(a) ==
    LET far == IF RepMin(a) > MaxWordLen THEN RepMin(a) ELSE MaxWordLen
        max == CASE a.name = "ZeroOrOne" -> 1
                 [] a.name = "Exactly" -> a.a
                 [] a.name = "Bounded" -> a.b
                 [] OTHER -> far
    IN  IF max < far THEN max ELSE far

RECURSIVE ClassChars(_)
ClassChars(item) ==
    CASE item.k = "Item.Literal"   -> {item.a}
      [] item.k = "Item.Range"     -> item.a..item.b
      [] item.k = "Item.Perl"      -> PerlChars(item.name)
      [] item.k = "Item.Bracketed" -> ClassChars(item.sub[1].sub[1])
      [] item.k = "Item.Union"     ->
            UNION {ClassChars(item.sub[i]) : i \in 1..Len(item.sub)}

RECURSIVE Lang(_)
RECURSIVE CatFrom(_, _)
CatFrom(asts, i) ==
    IF i > Len(asts) THEN {<<>>} ELSE Cat(Lang(asts[i]), CatFrom(asts, i + 1))

Lang(a) ==
    CASE a.k = "Literal"        -> OneChar({a.a})
      [] a.k = "Dot"            -> OneChar(0..127)
      [] a.k = "ClassPerl"      -> OneChar(PerlChars(a.name))
      [] a.k = "ClassBracketed" -> OneChar(ClassChars(a.sub[1]))
      [] a.k = "Group"          -> Lang(a.sub[1])
      [] a.k = "Concat"         -> CatFrom(a.sub, 1)
      [] a.k = "Alternation"    -> UNION {Lang(a.sub[i]) : i \in 1..Len(a.sub)}
      [] a.k = "Repetition"     ->
            LET L == Lang(a.sub[1])
            IN  UNION {Pow(L, k) : k \in RepMin(a)..RepMax(a)}

\* C1: after NFA::new() and a successful add_ast_to_nfa(ast, 0, 1) the words
\* that drive the NFA from state 0 to state 1 are the words of the regex.
C1_LanguageOfAst ==
    built = "ok" => AcceptedWords(nfa) = Lang(ast)

\* a, or a node below it, is one of the constructs the builder does not
\* support: a negated Perl class or bracket class, a non-greedy repetition, a
\* group that is not an indexed capture group, a non-ASCII character literal.
RECURSIVE HasUnsupported(_)
HasUnsupported(a) ==
    \/ a.k \in {"ClassPerl", "Item.Perl", "ClassBracketed"} /\ a.f
    \/ a.k = "Repetition" /\ ~a.f
    \/ a.k = "Group" /\ a.name # "CaptureIndex"
    \/ a.k \in {"Literal", "Item.Literal"} /\ a.a > 127
    \/ a.k = "Item.Range" /\ (a.a > 127 \/ a.b > 127)
    \/ \E i \in 1..Len(a.sub) : HasUnsupported(a.sub[i])

\* C11: add_ast_to_nfa returns an error for every AST that holds an
\* unsupported construct anywhere in it, also under a repetition of any bounds.
C11_UnsupportedIsRejected ==
    (built # "new" /\ HasUnsupported(ast)) => built # "ok"

\* C12: when add_ast_to_nfa returns an error the NFA is as it was before the
\* call: no state and no edge of the part compiled before the error is left.
C12_NoPartialNfaOnError ==
    [][(calls' = calls + 1 /\ built' # "ok") => nfa' = nfa]_vars

\* All the transitions of the NFA, whatever list they are stored in.
AllTransitions(n) == UNION {Edges(n, s) : s \in DOMAIN n.transitions}

\* C13: after NFA::new() and any calls of add_ast_to_nfa on existing states,
\* the from and to state of every transition are below the number of states,
\* and the transition is in the list keyed by its from state.
C13_TransitionsInRange ==
    \A s \in DOMAIN nfa.transitions : \A i \in 1..Len(nfa.transitions[s]) :
        LET tr == nfa.transitions[s][i]
        IN  /\ tr.from = s
            /\ tr.from \in 0..(Len(nfa.states) - 1)
            /\ tr.to \in 0..(Len(nfa.states) - 1)

\* Two calls were made, the second failed half-way, and some transition runs
\* between two states the calls allocated.
C13_Witness ==
    /\ calls = 2
    /\ built = "NegationNotSupported"
    /\ Len(nfa.states) >= 5
    /\ \E tr \in AllTransitions(nfa) : tr.from >= 2 /\ tr.to >= 3

\* C14: a call of add_ast_to_nfa keeps what was built: the states before it
\* are a prefix of the states after it, each state is equal to its position,
\* and each state's edge list before is a prefix of its edge list after.
C14_CallOnlyAppends ==
    [][calls' = calls + 1 =>
          /\ IsPrefix(nfa.states, nfa'.states)
          /\ \A i \in 1..Len(nfa'.states) : nfa'.states[i] = i - 1
          /\ \A s \in DOMAIN nfa.transitions :
                /\ s \in DOMAIN nfa'.transitions
                /\ IsPrefix(nfa.transitions[s], nfa'.transitions[s])]_vars

\* The second call added states, edges after the `a` edge that state 0
\* already had, and the edge list of a state it allocated.
C14_Witness ==
    /\ calls = 2
    /\ built = "ok"
    /\ ast = Alternation(<<Literal(97), Dot>>)
    /\ Len(nfa.states) = 6
    /\ 0 \in DOMAIN nfa.transitions
    /\ Len(nfa.transitions[0]) = 3
    /\ nfa.transitions[0][1].symbol_onehot_encoding = {97}
    /\ nfa.transitions[0][2].symbol_onehot_encoding = {}
    /\ 3 \in DOMAIN nfa.transitions

\* The edge the builder creates from `from` to `to` with label L.
Edge(from, to, L) ==
    [from |-> from, to |-> to, symbol_onehot_encoding |-> L, tag |-> -1]

\* The number of transitions of the NFA.
NumTransitions(n) ==
    Cardinality(UNION {{<<s, i>> : i \in 1..Len(n.transitions[s])} :
                        s \in DOMAIN n.transitions})

\* The regexes and class items that are one set of characters, and that set.
IsOneEdge(a) ==
    a.k \in {"Literal", "Dot", "ClassPerl", "Item.Literal", "Item.Range", "Item.Perl"}

Label(a) ==
    CASE a.k \in {"Literal", "Item.Literal"} -> {a.a}
      [] a.k = "Dot"                         -> 0..127
      [] a.k \in {"ClassPerl", "Item.Perl"}  -> PerlChars(a.name)
      [] a.k = "Item.Range"                  -> a.a..a.b

\* C15: a Literal, a Dot and a non-negated Perl class each compile to one
\* edge start -> end and no state; the label is bit c for Literal c, all 128
\* bits for Dot, '0'..'9' for \d, tab, newline, 0x0B, 0x0C, carriage return
\* and space for \s, and digits, A-Z, a-z and '_' for \w.
C15_LeafIsOneEdge ==
    (built = "ok" /\ ast.k \in {"Literal", "Dot", "ClassPerl"}) =>
        /\ nfa.states = <<START_STATE, ACCEPT_STATE>>
        /\ nfa.transitions =
              (START_STATE :> <<Edge(START_STATE, ACCEPT_STATE, Label(ast))>>)

\* \s was compiled to its one edge.
C15_Witness ==
    /\ built = "ok"
    /\ ast = ClassPerl("Space", FALSE)
    /\ AllTransitions(nfa) = {Edge(0, 1, {9, 10, 11, 12, 13, 32})}

\* The states a regex allocates, by the construction rule of its operator.
RepUnbounded(a) == a.name \in {"ZeroOrMore", "OneOrMore", "AtLeast"}

RepTop(a) ==
    CASE a.name = "ZeroOrOne" -> 1
      [] a.name = "Exactly"   -> a.a
      [] a.name = "Bounded"   -> a.b

RECURSIVE Alloc(_)
RECURSIVE SumAlloc(_, _)
\* The states the first k regexes of cs allocate.
SumAlloc(cs, k) == IF k = 0 THEN 0 ELSE SumAlloc(cs, k - 1) + Alloc(cs[k])

Alloc(a) ==
    CASE IsOneEdge(a) -> 0
      [] a.k \in {"Group", "ClassBracketed", "Item.Bracketed"} -> Alloc(a.sub[1])
      [] a.k \in {"Concat", "Item.Union"} ->
            (Len(a.sub) - 1) + SumAlloc(a.sub, Len(a.sub))
      [] a.k = "Alternation" -> 2 * Len(a.sub) + SumAlloc(a.sub, Len(a.sub))
      [] a.k = "Repetition" ->
            LET x   == Alloc(a.sub[1])
                min == RepMin(a)
            IN  1 + (IF min = 0 THEN 0 ELSE (min - 1) + min * x)
                  + (IF RepUnbounded(a) THEN x ELSE (RepTop(a) - min) * (1 + x))

\* The i-th linking state of a chain compiled when N states exist: one state
\* for each earlier link, and the states the earlier children allocated.
Link(cs, i, N) == N + (i - 1) + SumAlloc(cs, i - 1)

\* The first state of the i-th branch of an alternation.
Branch(cs, i, N) == N + 2 * (i - 1) + SumAlloc(cs, i - 1)

\* The edges of the fragment of regex a from s to e, built when N states
\* exist, by the construction rule of each operator.
RECURSIVE Shape(_, _, _, _)

ChainShape(cs, s, e, N) ==
    UNION {Shape(cs[i],
                 IF i = 1 THEN s ELSE Link(cs, i - 1, N),
                 IF i = Len(cs) THEN e ELSE Link(cs, i, N),
                 IF i = Len(cs) THEN Link(cs, i, N) ELSE Link(cs, i, N) + 1) :
           i \in 1..Len(cs)}

AlternationShape(cs, s, e, N) ==
    UNION {{Edge(s, Branch(cs, i, N), {}), Edge(Branch(cs, i, N) + 1, e, {})}
           \cup Shape(cs[i], Branch(cs, i, N), Branch(cs, i, N) + 1,
                      Branch(cs, i, N) + 2) :
           i \in 1..Len(cs)}

\* k copies of x chained from s through fresh states, one allocated just
\* before each copy, the last copy ending at `last` when there is one (an
\* existing state) and at its fresh state otherwise.
CopiesShape(x, k, s, last, has_last, N) ==
    LET Fresh(j) == N + (j - 1) * (1 + Alloc(x))
    IN  UNION {Shape(x,
                     IF j = 1 THEN s ELSE Fresh(j - 1),
                     IF j = k /\ has_last THEN last ELSE Fresh(j),
                     IF j = k /\ has_last THEN Fresh(j) ELSE Fresh(j) + 1) :
               j \in 1..k}

RepetitionShape(a, s, e, N) ==
    LET x    == a.sub[1]
        min  == RepMin(a)
        R    == N
        N2   == N + 1 + (IF min = 0 THEN 0 ELSE (min - 1) + min * Alloc(x))
        more == IF RepUnbounded(a) THEN 0 ELSE RepTop(a) - min
    IN  (IF min = 0 THEN {Edge(s, R, {})}
         ELSE CopiesShape(x, min, s, R, TRUE, N + 1))
        \cup {Edge(R, e, {})}
        \cup (IF RepUnbounded(a) THEN Shape(x, R, R, N2)
              ELSE CopiesShape(x, more, R, R, FALSE, N2)
                   \cup {Edge(N2 + (j - 1) * (1 + Alloc(x)), e, {}) : j \in 1..more})

Shape(a, s, e, N) ==
    CASE IsOneEdge(a) -> {Edge(s, e, Label(a))}
      [] a.k \in {"Group", "ClassBracketed", "Item.Bracketed"} -> Shape(a.sub[1], s, e, N)
      [] a.k \in {"Concat", "Item.Union"} -> ChainShape(a.sub, s, e, N)
      [] a.k = "Alternation" -> AlternationShape(a.sub, s, e, N)
      [] a.k = "Repetition" -> RepetitionShape(a, s, e, N)

\* C16: a Concat of n children allocates n-1 linking states besides those of
\* its children, each just before its child is compiled, and compiles child i
\* from link i-1 to link i, the first from start and the last to end; `<\d>`
\* gives states 0..3 and the edges 0 -> 2 '<', 2 -> 3 digit, 3 -> 1 '>'.
C16_ConcatChain ==
    (built = "ok" /\ ast.k = "Concat") =>
        /\ Len(nfa.states) = 2 + (Len(ast.sub) - 1) + SumAlloc(ast.sub, Len(ast.sub))
        /\ AllTransitions(nfa) = ChainShape(ast.sub, START_STATE, ACCEPT_STATE, 2)
        /\ NumTransitions(nfa) = Cardinality(AllTransitions(nfa))
        /\ ast = ConcatScenario =>
              /\ nfa.states = <<0, 1, 2, 3>>
              /\ nfa.transitions = (0 :> <<Edge(0, 2, {60})>>)
                                    @@ (2 :> <<Edge(2, 3, 48..57)>>)
                                    @@ (3 :> <<Edge(3, 1, {62})>>)

\* `<\d>` was compiled: the digit edge runs between the two linking states.
C16_Witness ==
    /\ built = "ok"
    /\ ast = ConcatScenario
    /\ Len(nfa.states) = 4
    /\ Edge(2, 3, 48..57) \in AllTransitions(nfa)

\* C17: an Alternation allocates for each branch in order two states (b, e),
\* adds the epsilon edges start -> b and e -> end and compiles the branch from
\* b to e; for `\d|a|bcd` the pairs are (2,3), (4,5), (6,7) and the third
\* branch runs 6 -> 8 -> 9 -> 7.
C17_AlternationBranches ==
    (built = "ok" /\ ast.k = "Alternation") =>
        /\ Len(nfa.states) = 2 + 2 * Len(ast.sub) + SumAlloc(ast.sub, Len(ast.sub))
        /\ AllTransitions(nfa) = AlternationShape(ast.sub, START_STATE, ACCEPT_STATE, 2)
        /\ NumTransitions(nfa) = Cardinality(AllTransitions(nfa))
        /\ \A i \in 1..Len(ast.sub) :
              /\ nfa.transitions[START_STATE][i] = Edge(0, Branch(ast.sub, i, 2), {})
              /\ nfa.transitions[Branch(ast.sub, i, 2) + 1][1] =
                     Edge(Branch(ast.sub, i, 2) + 1, 1, {})
        /\ ast = AlternationScenario =>
              /\ Len(nfa.states) = 10
              /\ AllTransitions(nfa) =
                    {Edge(0, 2, {}), Edge(3, 1, {}), Edge(2, 3, 48..57),
                     Edge(0, 4, {}), Edge(5, 1, {}), Edge(4, 5, {97}),
                     Edge(0, 6, {}), Edge(7, 1, {}),
                     Edge(6, 8, {98}), Edge(8, 9, {99}), Edge(9, 7, {100})}

\* `\d|a|bcd` was compiled: its third branch starts at state 6 and goes
\* through state 8.
C17_Witness ==
    /\ built = "ok"
    /\ ast = AlternationScenario
    /\ Edge(0, 6, {}) \in AllTransitions(nfa)
    /\ Edge(6, 8, {98}) \in AllTransitions(nfa)

\* The number of states of the NFA of each repetition of `a`.
RepetitionStateCounts ==
    {<<RepetitionOf("Bounded", 3, 6), 8>>, <<RepetitionOf("Bounded", 0, 3), 6>>,
     <<RepetitionOf("Bounded", 0, 1), 4>>, <<RepetitionOf("Exactly", 3, 0), 5>>,
     <<RepetitionOf("AtLeast", 3, 0), 5>>, <<RepetitionOf("ZeroOrMore", 0, 0), 3>>,
     <<RepetitionOf("OneOrMore", 0, 0), 3>>, <<RepetitionOf("AtLeast", 1, 0), 3>>}

\* C18: a greedy Repetition lowered to (min, max) allocates the range-bound
\* state R first; with min = 0 it adds an epsilon start -> R, else it chains
\* min copies of inner from start to R; it adds an epsilon R -> end; with no
\* max it adds a copy of inner looping R -> R; with max > min it chains
\* max - min further copies from R through fresh states, each with an epsilon
\* to end. The repetitions of `a` have 8, 6, 4, 5, 5, 3, 3 and 3 states.
C18_RepetitionShape ==
    (built = "ok" /\ ast.k = "Repetition") =>
        /\ Len(nfa.states) = 2 + Alloc(ast)
        /\ AllTransitions(nfa) = RepetitionShape(ast, START_STATE, ACCEPT_STATE, 2)
        /\ NumTransitions(nfa) = Cardinality(AllTransitions(nfa))
        /\ \A c \in RepetitionStateCounts : ast = c[1] => Len(nfa.states) = c[2]
        /\ ast = RepetitionOf("Bounded", 3, 6) =>
              AllTransitions(nfa) =
                  {Edge(0, 3, {97}), Edge(3, 4, {97}), Edge(4, 2, {97}), Edge(2, 1, {}),
                   Edge(2, 5, {97}), Edge(5, 6, {97}), Edge(6, 7, {97}),
                   Edge(5, 1, {}), Edge(6, 1, {}), Edge(7, 1, {})}

\* `a{3,6}` was compiled to its 8 states.
C18_Witness ==
    /\ built = "ok"
    /\ ast = RepetitionOf("Bounded", 3, 6)
    /\ Len(nfa.states) = 8
    /\ Edge(7, 1, {}) \in AllTransitions(nfa)

\* The regex is a repetition of a fixed count: min = max.
IsFixedCount(a) ==
    a.k = "Repetition" /\ ~RepUnbounded(a) /\ RepMin(a) = RepTop(a)

\* The edges of one copy of regex x.
EdgeCount(x) == Cardinality(Shape(x, 0, 1, 2))

\* C19 as stated: for min = max = k, every k >= 0, the fragment is k copies
\* of inner chained from start, and exactly one epsilon edge, from the state
\* the last copy ends at (start when k = 0) to the accept state.
C19_FixedCountAnyK ==
    (built = "ok" /\ IsFixedCount(ast)) =>
        LET k == RepMin(ast)
            x == ast.sub[1]
        IN  /\ NumTransitions(nfa) = k * EdgeCount(x) + 1
            /\ AllTransitions(nfa) =
                  CopiesShape(x, k, START_STATE, 2, TRUE, 3)
                  \cup {Edge(IF k = 0 THEN START_STATE ELSE 2, ACCEPT_STATE, {})}

\* C19 amended: for min = max = k >= 1 the fragment is k copies of inner
\* chained from start to the range-bound state R and exactly one epsilon edge,
\* R -> accept; for k = 0 it is no copy of inner and exactly two epsilon
\* edges, start -> R and R -> accept.
C19_FixedCount ==
    (built = "ok" /\ IsFixedCount(ast)) =>
        LET k == RepMin(ast)
            x == ast.sub[1]
        IN  IF k = 0
            THEN /\ nfa.states = <<0, 1, 2>>
                 /\ nfa.transitions = (START_STATE :> <<Edge(START_STATE, 2, {})>>)
                                       @@ (2 :> <<Edge(2, ACCEPT_STATE, {})>>)
            ELSE /\ NumTransitions(nfa) = k * EdgeCount(x) + 1
                 /\ Len(nfa.states) = 3 + (k - 1) + k * Alloc(x)
                 /\ AllTransitions(nfa) =
                       CopiesShape(x, k, START_STATE, 2, TRUE, 3)
                       \cup {Edge(2, ACCEPT_STATE, {})}

\* `(a|b){3}` was compiled: three copies of five states and four edges each.
C19_Witness ==
    /\ built = "ok"
    /\ ast = Repetition("Exactly", 3, 0, TRUE,
                        Alternation(<<Literal(97), Literal(98)>>))
    /\ Len(nfa.states) = 17
    /\ NumTransitions(nfa) = 19

\* C20: a non-negated bracketed class whose set is a Union of n items is
\* compiled as a chain: n-1 fresh states, item i from link i-1 to link i, the
\* first from start and the last to end; for `[a-c3-9[A-X]]` the edges are
\* 0 -> 2 a-c, 2 -> 3 3-9, 3 -> 1 A-X.
C20_BracketUnionChain ==
    (built = "ok" /\ ast.k = "ClassBracketed" /\ ast.sub[1].k = "Item.Union") =>
        LET items == ast.sub[1].sub
        IN  /\ Len(nfa.states) = 2 + (Len(items) - 1) + SumAlloc(items, Len(items))
            /\ AllTransitions(nfa) = ChainShape(items, START_STATE, ACCEPT_STATE, 2)
            /\ NumTransitions(nfa) = Cardinality(AllTransitions(nfa))
            /\ ast = BracketedScenario =>
                  /\ nfa.states = <<0, 1, 2, 3>>
                  /\ nfa.transitions = (0 :> <<Edge(0, 2, 97..99)>>)
                                        @@ (2 :> <<Edge(2, 3, 51..57)>>)
                                        @@ (3 :> <<Edge(3, 1, 65..88)>>)

\* `[a-c3-9[A-X]]` was compiled: the nested class is the last edge of the
\* chain.
C20_Witness ==
    /\ built = "ok"
    /\ ast = BracketedScenario
    /\ Len(nfa.states) = 4
    /\ Edge(3, 1, 65..88) \in AllTransitions(nfa)

\* ------------------------------------------------------------ SchemaConfig

\* serde_yaml::Value: a String of characters, a Sequence of values, a Mapping
\* of (key, value) entries in document order, or a value of another kind.
VString(str)      == [kind |-> "String", str |-> str, items |-> <<>>]
VSequence(items)  == [kind |-> "Sequence", str |-> <<>>, items |-> items]
VMapping(entries) == [kind |-> "Mapping", str |-> <<>>, items |-> entries]
VNumber           == [kind |-> "Number", str |-> <<>>, items |-> <<>>]

\* Result<T> of the loader's steps.
SchemaOk(v)  == [err |-> "", value |-> v]
SchemaErr(e) == [err |-> e, value |-> <<>>]

\* The regex strings of the model and their ASTs: `\d+`, `a`, `\d\d`,
\* `\w+`, `a*`, `\d`, `\d*`, `aa`.
RegexTable ==
    {<<<<92, 100, 43>>,
       Repetition("OneOrMore", 0, 0, TRUE, ClassPerl("Digit", FALSE))>>,
     <<<<97>>, Literal(97)>>,
     <<<<92, 100, 92, 100>>,
       Concat(<<ClassPerl("Digit", FALSE), ClassPerl("Digit", FALSE)>>)>>,
     <<<<92, 119, 43>>,
       Repetition("OneOrMore", 0, 0, TRUE, ClassPerl("Word", FALSE))>>,
     <<<<97, 42>>, Repetition("ZeroOrMore", 0, 0, TRUE, Literal(97))>>,
     <<<<92, 100>>, ClassPerl("Digit", FALSE)>>,
     <<<<92, 100, 42>>,
       Repetition("ZeroOrMore", 0, 0, TRUE, ClassPerl("Digit", FALSE))>>,
     <<<<97, 97>>, Concat(<<Literal(97), Literal(97)>>)>>}

\* RegexParser::parse_into_ast on the regex strings of the model: a string
\* of the table parses to its AST, every other string is a syntax error.
parse_into_ast(regex) ==
    IF \E e \in RegexTable : e[1] = regex
    THEN SchemaOk((CHOOSE e \in RegexTable : e[1] = regex)[2])
    ELSE SchemaErr("RegexParsingError")

\* TimestampSchema::new
TimestampSchema_new(regex) ==
    LET r == parse_into_ast(regex)
    IN  IF r.err # "" THEN r ELSE SchemaOk([regex |-> regex, ast |-> r.value])

\* VarSchema::new
VarSchema_new(name, regex) ==
    LET r == parse_into_ast(regex)
    IN  IF r.err # "" THEN r
        ELSE SchemaOk([name |-> name, regex |-> regex, ast |-> r.value])

\* A get_key_value that answers an empty string for a missing key.
get_key_value_or_empty(kv_map, key) ==
    IF key \in DOMAIN kv_map THEN SchemaOk(kv_map[key]) ELSE SchemaOk(VString(<<>>))

\* SchemaConfig::get_key_value
get_key_value(kv_map, key) ==
    IF key \in DOMAIN kv_map
    THEN SchemaOk(kv_map[key])
    ELSE SchemaErr("MissingSchemaKey(" \o key \o ")")

\* load_from_kv_pairs: sequence.iter().try_for_each(..) from the i-th value on.
RECURSIVE load_timestamps(_, _, _)
load_timestamps(sequence, i, ts_schemas) ==
    IF i > Len(sequence) THEN SchemaOk(ts_schemas)
    ELSE IF sequence[i].kind = "String"
    THEN LET r == TimestampSchema_new(sequence[i].str)
         IN  IF r.err # "" THEN r
             ELSE load_timestamps(sequence, i + 1, Append(ts_schemas, r.value))
    ELSE SchemaErr("InvalidSchema")

\* load_from_kv_pairs: for (key, value) in map, from the i-th entry on.
RECURSIVE load_variables(_, _, _)
load_variables(map, i, var_schemas) ==
    IF i > Len(map) THEN SchemaOk(var_schemas)
    ELSE IF map[i][1].kind = "String" /\ map[i][2].kind = "String"
    THEN LET r == VarSchema_new(map[i][1].str, map[i][2].str)
         IN  IF r.err # "" THEN r
             ELSE load_variables(map, i + 1, Append(var_schemas, r.value))
    ELSE SchemaErr("InvalidSchema")

\* A delimiter table without the final `delimiters['\n'] = true`.
RECURSIVE load_delimiters_as_listed(_, _, _)
load_delimiters_as_listed(delimiter_str, i, delimiters) ==
    IF i > Len(delimiter_str) THEN SchemaOk(delimiters)
    ELSE IF ~is_ascii(delimiter_str[i]) THEN SchemaErr("NoneASCIICharacters")
    ELSE load_delimiters_as_listed(delimiter_str, i + 1,
                                   [delimiters EXCEPT ![delimiter_str[i]] = TRUE])

\* load_from_kv_pairs: for c in delimiter_str.chars() from the i-th on, then
\* delimiters['\n'] = true.
RECURSIVE load_delimiters(_, _, _)
load_delimiters(delimiter_str, i, delimiters) ==
    IF i > Len(delimiter_str) THEN SchemaOk([delimiters EXCEPT ![10] = TRUE])
    ELSE IF ~is_ascii(delimiter_str[i]) THEN SchemaErr("NoneASCIICharacters")
    ELSE load_delimiters(delimiter_str, i + 1,
                         [delimiters EXCEPT ![delimiter_str[i]] = TRUE])

\* SchemaConfig::load_from_kv_pairs
load_from_kv_pairs(kv_pairs) ==
    LET timestamps == get_key_value(kv_pairs, "timestamp")
        ts == IF timestamps.err # "" THEN timestamps
              ELSE IF timestamps.value.kind = "Sequence"
              THEN load_timestamps(timestamps.value.items, 1, <<>>)
              ELSE SchemaErr("InvalidSchema")
        vars_ == get_key_value(kv_pairs, "variables")
        vs == IF vars_.err # "" THEN vars_
              ELSE IF vars_.value.kind = "Mapping"
              THEN load_variables(vars_.value.items, 1, <<>>)
              ELSE SchemaErr("InvalidSchema")
        delimiter == get_key_value(kv_pairs, "delimiters")
        ds == IF delimiter.err # "" THEN delimiter
              ELSE IF delimiter.value.kind = "String"
              THEN load_delimiters(delimiter.value.str, 1, [c \in 0..127 |-> FALSE])
              ELSE SchemaErr("InvalidSchema")
    IN  IF ts.err # "" THEN ts
        ELSE IF vs.err # "" THEN vs
        ELSE IF ds.err # "" THEN ds
        ELSE SchemaOk([ts_schemas |-> ts.value, var_schemas |-> vs.value,
                       delimiters |-> ds.value])

\* SchemaConfig::has_delimiter
has_delimiter(config, delimiter) ==
    IF ~is_ascii(delimiter) THEN FALSE ELSE config.delimiters[delimiter]

\* No value: the key is absent from the document.
VMissing == [kind |-> "Missing", str |-> <<>>, items |-> <<>>]

\* The values found under each key of a schema document.
TimestampValues ==
    {VSequence(<<VString(<<92, 100, 43>>)>>),
     VSequence(<<VString(<<97>>), VString(<<92, 100, 43>>)>>),
     VSequence(<<>>),
     VSequence(<<VString(<<97>>), VNumber>>),
     VSequence(<<VString(<<40>>)>>),
     VString(<<97>>)}

VariableValues ==
    {VMapping(<<<<VString(<<105, 100>>), VString(<<92, 100, 43>>)>>>>),
     VMapping(<<>>),
     VMapping(<<<<VString(<<105, 100>>), VString(<<97>>)>>,
                <<VString(<<120>>), VNumber>>>>),
     VMapping(<<<<VNumber, VString(<<97>>)>>>>),
     VMapping(<<<<VString(<<120>>), VString(<<40>>)>>>>),
     VSequence(<<VString(<<97>>)>>)}

DelimiterValues ==
    {VString(<<32>>), VString(<<>>), VString(<<32, 58, 10, 32>>),
     VString(<<9, 44>>), VString(<<32, 233>>), VString(<<8364>>),
     VNumber, VSequence(<<VString(<<32>>)>>)}

\* A document: each key absent or bound to one of its values.
KvPairs(t, v, d) ==
    [k \in {x \in {"timestamp", "variables", "delimiters"} :
                \/ x = "timestamp" /\ t # VMissing
                \/ x = "variables" /\ v # VMissing
                \/ x = "delimiters" /\ d # VMissing} |->
        IF k = "timestamp" THEN t ELSE IF k = "variables" THEN v ELSE d]

SchemaInputs ==
    {KvPairs(t, v, d) : t \in TimestampValues \cup {VMissing},
                        v \in VariableValues \cup {VMissing},
                        d \in DelimiterValues \cup {VMissing}}

\* SchemaConfig::load_from_kv_pairs(kv_pairs) is called and returns.
LoadSchema ==
    /\ ~schema.loaded
    /\ LET r == load_from_kv_pairs(schema.kv_pairs)
       IN  schema' = [schema EXCEPT !.loaded = TRUE, !.err = r.err,
                                    !.config = r.value]
    /\ UNCHANGED <<lpVars, nfaVars, ec, lex, names>>

\* The key-value pairs serde_yaml read from the document.
InitSchema ==
    /\ LogParser_new
    /\ NfaIdle
    /\ ec = NoClosureCall
    /\ lex = NoLexer
    /\ names = NoNames
    /\ \E kv \in SchemaInputs : schema = [NoSchema EXCEPT !.kv_pairs = kv]

NextSchema == LoadSchema

SpecSchema == InitSchema /\ [][NextSchema]_vars

\* ------------------------------------------------------------------- Lexer

\* The longest byte stream given to the lexer.
MaxBytes == 4

\* A schema document with the given timestamp regexes, variable regexes (in
\* declaration order) and delimiter string.
SchemaDocument(timestamps, variables, delimiter_str) ==
    KvPairs(VSequence([i \in 1..Len(timestamps) |-> VString(timestamps[i])]),
            VMapping([i \in 1..Len(variables) |->
                         <<VString(<<118, 48 + i>>), VString(variables[i])>>]),
            VString(delimiter_str))

\* The schemas the lexer is configured with:
\*   timestamp `\d\d`, variables `\d+`, `\w+`, delimiters " ";
\*   no timestamp, variables `a*`, `\d`, delimiters " ";
\*   timestamp `\d+`, variables `\d*`, `aa`, no delimiter but '\n'.
LexerSchemas ==
    {load_from_kv_pairs(SchemaDocument(<<<<92, 100, 92, 100>>>>,
                            <<<<92, 100, 43>>, <<92, 119, 43>>>>, <<32>>)).value,
     load_from_kv_pairs(SchemaDocument(<<>>,
                            <<<<97, 42>>, <<92, 100>>>>, <<32>>)).value,
     load_from_kv_pairs(SchemaDocument(<<<<92, 100, 43>>>>,
                            <<<<92, 100, 42>>, <<97, 97>>>>, <<>>)).value}

\* The ASCII bytes of the streams: '0', 'a', ' ', '\n'.
StreamBytes == {48, 97, 32, 10}

AsciiStreams(k) == UNION {[1..j -> StreamBytes] : j \in 0..k}

\* The streams: ASCII streams, and ASCII streams up to a first byte above
\* 127 (no byte after it is ever read).
ByteStreams ==
    AsciiStreams(MaxBytes) \cup {Append(w, 233) : w \in AsciiStreams(MaxBytes - 1)}

\* The patterns of a schema in priority order: the timestamps, then the
\* variables in declaration order.
Patterns(config) ==
    [i \in 1..Len(config.ts_schemas) |-> config.ts_schemas[i].ast]
        \o [i \in 1..Len(config.var_schemas) |-> config.var_schemas[i].ast]

\* Tokenization step 1: one NFA per pattern, each compiled between its own
\* start 0 and accept 1; the pattern's position is the tag of its accept.
compile_patterns(config) ==
    [p \in 1..Len(Patterns(config)) |->
        add_ast_to_nfa(NFA_new, Patterns(config)[p], START_STATE, ACCEPT_STATE).nfa]

\* The active set of the fused NFA before any byte: the epsilon closure of
\* the super-start, which has an epsilon edge to every pattern's start.
initial_active(nfas) ==
    UNION {{<<p, s>> : s \in EpsReach(nfas[p], {START_STATE})} :
              p \in 1..Len(nfas)}

\* Tokenization step 2: the epsilon closure of the transition of the active
\* set under byte b.
active_after(nfas, active, b) ==
    UNION {{<<p, s>> : s \in EpsReach(nfas[p],
                                Move(nfas[p], {t[2] : t \in {a \in active : a[1] = p}}, b))} :
              p \in 1..Len(nfas)}

\* The tags of the accepting states in the active set.
accepting_tags(active) == {a[1] : a \in {t \in active : t[2] = ACCEPT_STATE}}

\* The pattern that wins among those accepting the same prefix, by the
\* opposite rule: the last declared.
winning_tag_last(tags) == CHOOSE p \in tags : \A q \in tags : q <= p

\* Ordering and tie-break: timestamps outrank variables, an earlier variable
\* outranks a later one.
winning_tag(tags) == CHOOSE p \in tags : \A q \in tags : p <= q

\* A prefix counts as accepted whatever its length.
accepted_any_length(active, n) == accepting_tags(active) # {}

\* Tokenization step 3: a prefix of n bytes is accepted when the active set
\* holds an accepting state; the empty prefix is not a lexeme.
accepted(active, n) == n >= 1 /\ accepting_tags(active) # {}

\* The type and pattern id of a token accepted with the given tag.
token_type(config, tag) ==
    IF tag <= Len(config.ts_schemas)
    THEN [type |-> "Timestamp", id |-> tag]
    ELSE [type |-> "Variable", id |-> tag - Len(config.ts_schemas)]

\* Lexer::set_input_stream: attach the bytes, line counter 1.
lexer_set_input_stream(config, input) ==
    [NoLexer EXCEPT !.config = config, !.nfas = compile_patterns(config),
                    !.input = input, !.pc = "idle"]

\* An emission that consumes every byte read, accepted or not.
emit_all_read(l, type, id, length) ==
    [l EXCEPT !.out = Append(l.out, [type |-> type, id |-> id,
                                     lexeme |-> SubSeq(l.input, l.pos + 1, l.pos + length),
                                     line |-> l.line]),
              !.pos = l.pos + IF l.n > length THEN l.n ELSE length,
              !.line = IF type = "Newline" THEN l.line + 1 ELSE l.line,
              !.pc = "idle", !.n = 0, !.active = {}, !.found = FALSE,
              !.len = 0, !.tag = 0]

\* Tokenization steps 5 and 6: the token of the next `length` bytes, with
\* the line number of its first byte; '\n' increments the line counter.
emit(l, type, id, length) ==
    [l EXCEPT !.out = Append(l.out, [type |-> type, id |-> id,
                                     lexeme |-> SubSeq(l.input, l.pos + 1, l.pos + length),
                                     line |-> l.line]),
              !.pos = l.pos + length,
              !.line = IF type = "Newline" THEN l.line + 1 ELSE l.line,
              !.pc = "idle", !.n = 0, !.active = {}, !.found = FALSE,
              !.len = 0, !.tag = 0]

\* The next byte to read is past the end of the stream or a delimiter.
at_lexeme_end(l) ==
    \/ l.pos + l.n = Len(l.input)
    \/ has_delimiter(l.config, l.input[l.pos + l.n + 1])

\* Lexer::get_next_token is called: empty at the end of the stream, a hard
\* error on a byte above 127, a one-byte Newline or Whitespace token on a
\* delimiter, otherwise a lexeme begins at the first byte not consumed.
LexerCall ==
    /\ lex.pc = "idle"
    /\ Len(lex.out) <= Len(lex.input)
    /\ IF lex.pos = Len(lex.input) THEN lex' = [lex EXCEPT !.pc = "end"]
       ELSE LET b == lex.input[lex.pos + 1]
            IN  IF ~is_ascii(b) THEN lex' = [lex EXCEPT !.pc = "error"]
                ELSE IF has_delimiter(lex.config, b)
                THEN lex' = emit(lex, IF b = 10 THEN "Newline" ELSE "Whitespace",
                                 0, 1)
                ELSE LET active == initial_active(lex.nfas)
                         found == accepted(active, 0)
                     IN  lex' = [lex EXCEPT
                             !.pc = "scan", !.n = 0, !.active = active,
                             !.found = found, !.len = 0,
                             !.tag = IF found
                                     THEN winning_tag(accepting_tags(active))
                                     ELSE 0]
    /\ UNCHANGED <<lpVars, nfaVars, ec, schema, names>>

\* One turn of the scan: the lexeme ends at a delimiter, at the end of the
\* stream, or when the active set is empty after a match; otherwise the
\* lexer reads one byte, steps the active set and remembers the longest
\* accepted prefix and its tag. With no match the lexeme runs on to the
\* next delimiter and is StaticText.
LexerAdvance ==
    /\ lex.pc = "scan"
    /\ IF at_lexeme_end(lex) \/ (lex.active = {} /\ lex.found)
       THEN IF lex.found
            THEN LET t == token_type(lex.config, lex.tag)
                 IN  lex' = emit(lex, t.type, t.id, lex.len)
            ELSE lex' = emit(lex, "StaticText", 0, lex.n)
       ELSE LET b == lex.input[lex.pos + lex.n + 1]
                active == active_after(lex.nfas, lex.active, b)
                found == accepted(active, lex.n + 1)
            IN  IF ~is_ascii(b) THEN lex' = [lex EXCEPT !.pc = "error"]
                ELSE lex' = [lex EXCEPT
                         !.n = lex.n + 1, !.active = active,
                         !.found = lex.found \/ found,
                         !.len = IF found THEN lex.n + 1 ELSE lex.len,
                         !.tag = IF found
                                 THEN winning_tag(accepting_tags(active))
                                 ELSE lex.tag]
    /\ UNCHANGED <<lpVars, nfaVars, ec, schema, names>>

\* A lexer configured with a schema, right after set_input_stream.
InitLexer ==
    /\ LogParser_new
    /\ NfaIdle
    /\ ec = NoClosureCall
    /\ schema = NoSchema
    /\ names = NoNames
    /\ \E config \in LexerSchemas, input \in ByteStreams :
           lex = lexer_set_input_stream(config, input)

NextLexer ==
    \/ LexerCall
    \/ LexerAdvance

SpecLexer == InitLexer /\ [][NextLexer]_vars

\* get_next_token runs to its return once called.
SpecLexerFair == SpecLexer /\ WF_vars(NextLexer)

\* ------------------------------------------------ epsilon closure: properties

\* The states of a vector, as a set.
SetOf(vec) == {vec[i] : i \in 1..Len(vec)}

\* C holds the target of every epsilon edge that leaves a state of C.
ClosedUnderEpsilon(n, C) ==
    \A tr \in AllTransitions(n) :
        (tr.from \in C /\ tr.symbol_onehot_encoding = {}) => tr.to \in C

\* C21: epsilon_closure(S) returns, as a set, the least set that holds S and
\* is closed under epsilon edges: every seed, every state reached from a seed
\* by epsilon edges alone, and no other state; on the unit test's NFA the
\* closure of {0} is {0, 1, 2} and the closure of {3} is {3, 4, 5, 6}.
C21_ClosureIsLeast ==
    ec.pc = "done" =>
        /\ SetOf(ec.states) \subseteq SetOf(ec.closure)
        /\ ClosedUnderEpsilon(nfa, SetOf(ec.closure))
        /\ SetOf(ec.closure) = EpsReach(nfa, SetOf(ec.states))
        /\ (nfa = ClosureTestNfa /\ ec.states = <<0>>) =>
              Len(ec.closure) = 3 /\ SetOf(ec.closure) = {0, 1, 2}
        /\ (nfa = ClosureTestNfa /\ ec.states = <<3>>) =>
              Len(ec.closure) = 4 /\ SetOf(ec.closure) = {3, 4, 5, 6}

\* The closure of {1, 2} on the unit test's NFA was returned: it stops at the
\* `a` edge that leaves state 2.
C21_Witness ==
    /\ ec.pc = "done"
    /\ nfa = ClosureTestNfa
    /\ ec.states = <<1, 2>>
    /\ SetOf(ec.closure) = {1, 2}

\* The states pushed after the seeds are pairwise different, are no seeds,
\* and the stack holds only states of the closure.
PushedOnce ==
    /\ \A i \in (Len(ec.states) + 1)..Len(ec.closure) :
          \A j \in 1..Len(ec.closure) : j # i => ec.closure[j] # ec.closure[i]
    /\ SetOf(ec.stack) \subseteq SetOf(ec.closure)
    /\ Len(ec.stack) <= Len(ec.closure)

\* C22: epsilon_closure terminates on every finite NFA, also when its epsilon
\* edges form cycles, because a state is pushed on the stack at most once
\* after it was added to the closure.
C22_ClosureTerminates ==
    []PushedOnce /\ <>(ec.pc = "done")

\* The closure was returned for a seed on the epsilon cycle 3 -> 4 -> 6 -> 3
\* of the unit test's NFA.
C22_Witness ==
    /\ ec.pc = "done"
    /\ nfa = ClosureTestNfa
    /\ ec.states = <<6>>
    /\ SetOf(ec.closure) = {3, 4, 5, 6}


\* -------------------------------------------------------- schema: properties

\* The characters has_delimiter is asked about: every ASCII character and
\* two that are not ASCII.
LookupChars == 0..127 \cup {233, 8364}

\* The characters of the document's `delimiters` string.
ListedDelimiters(kv_pairs) == SetOf(kv_pairs["delimiters"].str)

\* C23: after a successful load has_delimiter(c) is true exactly for the
\* characters of the `delimiters` string and for '\n', false for every other
\* character, and false for a character that is not ASCII.
C23_DelimitersAsListed ==
    (schema.loaded /\ schema.err = "") =>
        /\ \A c \in LookupChars :
              has_delimiter(schema.config, c)
                  <=> (c \in ListedDelimiters(schema.kv_pairs) \/ c = 10)
        /\ \A c \in LookupChars : c > 127 => ~has_delimiter(schema.config, c)

\* A load of the delimiters "\t," succeeded: tab, comma and the unlisted
\* '\n' are delimiters, the space and U+00E9 are not.
C23_Witness ==
    /\ schema.loaded
    /\ schema.err = ""
    /\ schema.kv_pairs["delimiters"] = VString(<<9, 44>>)
    /\ has_delimiter(schema.config, 9)
    /\ has_delimiter(schema.config, 44)
    /\ has_delimiter(schema.config, 10)
    /\ ~has_delimiter(schema.config, 32)
    /\ ~has_delimiter(schema.config, 233)

\* The value is a sequence of strings.
IsSequenceOfStrings(v) ==
    v.kind = "Sequence" /\ \A i \in 1..Len(v.items) : v.items[i].kind = "String"

\* The value is a mapping of string to string.
IsMappingOfStrings(v) ==
    /\ v.kind = "Mapping"
    /\ \A i \in 1..Len(v.items) :
          v.items[i][1].kind = "String" /\ v.items[i][2].kind = "String"

\* The errors a document calls for: a missing key, a value of the wrong
\* shape, a delimiter that is not ASCII.
SchemaDefects(kv_pairs) ==
    {"MissingSchemaKey(" \o k \o ")" :
        k \in {"timestamp", "variables", "delimiters"} \ DOMAIN kv_pairs}
    \cup {"InvalidSchema" : k \in {x \in DOMAIN kv_pairs :
            \/ x = "timestamp" /\ ~IsSequenceOfStrings(kv_pairs[x])
            \/ x = "variables" /\ ~IsMappingOfStrings(kv_pairs[x])
            \/ x = "delimiters" /\ kv_pairs[x].kind # "String"}}
    \cup {"NoneASCIICharacters" : k \in {x \in DOMAIN kv_pairs :
            /\ x = "delimiters"
            /\ kv_pairs[x].kind = "String"
            /\ \E c \in SetOf(kv_pairs[x].str) : ~is_ascii(c)}}

\* Some regex string of the document does not parse.
HasBadRegex(kv_pairs) ==
    \E k \in DOMAIN kv_pairs \cap {"timestamp", "variables"} :
        \E i \in 1..Len(kv_pairs[k].items) :
            LET item == kv_pairs[k].items[i]
                regex == IF kv_pairs[k].kind = "Sequence" THEN item ELSE item[2]
            IN  regex.kind = "String" /\ parse_into_ast(regex.str).err # ""

\* C24: a document with a missing key, a value of the wrong shape or a
\* delimiter that is not ASCII fails to load and yields no SchemaConfig; the
\* error is the one of a defect of the document (MissingSchemaKey naming a
\* missing key, InvalidSchema for a wrong shape, NoneASCIICharacters), or
\* the regex parser's when a regex of the document does not parse, and it
\* is the defect's own error when the document has one defect and regexes
\* that parse.
C24_DefectiveSchemaFails ==
    schema.loaded =>
        LET defects == SchemaDefects(schema.kv_pairs)
        IN  /\ defects # {} => (schema.err # "" /\ schema.config = <<>>)
            /\ schema.err # "" =>
                   \/ schema.err \in defects
                   \/ schema.err = "RegexParsingError"
                          /\ HasBadRegex(schema.kv_pairs)
            /\ (Cardinality(defects) = 1 /\ ~HasBadRegex(schema.kv_pairs))
                   => schema.err \in defects

\* A document without the key `delimiters`, otherwise well formed, failed
\* with MissingSchemaKey(delimiters).
C24_Witness ==
    /\ schema.loaded
    /\ DOMAIN schema.kv_pairs = {"timestamp", "variables"}
    /\ SchemaDefects(schema.kv_pairs) = {"MissingSchemaKey(delimiters)"}
    /\ schema.err = "MissingSchemaKey(delimiters)"
    /\ schema.config = <<>>


\* --------------------------------------------------------- lexer: properties

\* The lexeme bytes of the tokens from the i-th on, concatenated.
RECURSIVE LexemesFrom(_, _)
LexemesFrom(out, i) ==
    IF i > Len(out) THEN <<>> ELSE out[i].lexeme \o LexemesFrom(out, i + 1)

IsAsciiStream(input) == \A i \in 1..Len(input) : is_ascii(input[i])

\* C25: on an ASCII stream, when get_next_token returns empty the lexeme
\* bytes of the tokens returned so far, concatenated in order, are the
\* bytes of the stream.
C25_LexemesRoundTrip ==
    (lex.pc = "end" /\ IsAsciiStream(lex.input)) =>
        LexemesFrom(lex.out, 1) = lex.input

\* The stream "aaa\n" under the schema with variable `aa` and no delimiter
\* but '\n' was cut into "aa", "a" and "\n".
C25_Witness ==
    /\ lex.pc = "end"
    /\ lex.input = <<97, 97, 97, 10>>
    /\ Len(lex.out) = 3
    /\ lex.out[1].lexeme = <<97, 97>>
    /\ lex.out[2].lexeme = <<97>>
    /\ lex.out[3].type = "Newline"

\* The number of bytes from position start + 1 on up to the next delimiter
\* or the end of the stream.
RECURSIVE RunLength(_, _, _)
RunLength(config, input, start) ==
    IF start >= Len(input) \/ has_delimiter(config, input[start + 1]) THEN 0
    ELSE 1 + RunLength(config, input, start + 1)

\* The lengths k >= 1 for which pattern p matches the k bytes after start.
MatchLengths(l, p, start) ==
    {k \in 1..RunLength(l.config, l.input, start) :
        Drives(l.nfas[p], START_STATE, ACCEPT_STATE,
               SubSeq(l.input, start + 1, start + k))}

LongestMatch(l, start) ==
    LET lengths == UNION {MatchLengths(l, p, start) : p \in 1..Len(l.nfas)}
    IN  IF lengths = {} THEN 0
        ELSE CHOOSE k \in lengths : \A j \in lengths : j <= k

\* The token of the lexeme that begins after `start`: the longest match, of
\* a timestamp pattern if one matches that length, else of the earliest
\* declared variable pattern that does; StaticText up to the delimiter when
\* no pattern matches.
ClassifiedByLongestMatch(l, t, start) ==
    LET longest == LongestMatch(l, start)
        winners == {p \in 1..Len(l.nfas) : longest \in MatchLengths(l, p, start)}
        ts == {p \in winners : p <= Len(l.config.ts_schemas)}
    IN  IF longest = 0
        THEN t.type = "StaticText"
                 /\ Len(t.lexeme) = RunLength(l.config, l.input, start)
        ELSE /\ Len(t.lexeme) = longest
             /\ IF ts # {}
                THEN t.type = "Timestamp" /\ t.id \in ts
                         /\ \A q \in ts : t.id <= q
                ELSE /\ t.type = "Variable"
                     /\ t.id + Len(l.config.ts_schemas) \in winners
                     /\ \A q \in winners : t.id + Len(l.config.ts_schemas) <= q

\* C26: a token that is not a delimiter is classified by the longest
\* pattern match at its first byte; at equal length a timestamp pattern
\* wins over a variable pattern and an earlier variable over a later one.
C26_LongestMatchAndTieBreak ==
    (lex.pc = "idle" /\ Len(lex.out) > 0) =>
        LET t == lex.out[Len(lex.out)]
        IN  t.type \notin {"Whitespace", "Newline"} =>
                ClassifiedByLongestMatch(lex, t, lex.pos - Len(t.lexeme))

\* Under timestamp `\d\d`, variables `\d+` and `\w+`, the stream "00\n0":
\* "00" is the longest match of all three patterns and is the Timestamp;
\* "0" is matched by both variables and is variable 1.
C26_Witness ==
    /\ lex.pc = "end"
    /\ lex.input = <<48, 48, 10, 48>>
    /\ Len(lex.out) = 3
    /\ lex.out[1] = [type |-> "Timestamp", id |-> 1, lexeme |-> <<48, 48>>,
                     line |-> 1]
    /\ lex.out[3] = [type |-> "Variable", id |-> 1, lexeme |-> <<48>>,
                     line |-> 2]

NoEmptyLexeme == \A i \in 1..Len(lex.out) : Len(lex.out[i].lexeme) >= 1

\* C27: no token has an empty lexeme, every token returned consumes input,
\* and every get_next_token call returns, the calls reaching the end of the
\* stream (or the hard error) where no scan is left running, also under a
\* pattern that matches the empty string.
C27_NoEmptyTokenNoLoop ==
    /\ []NoEmptyLexeme
    /\ [][lex'.out # lex.out => lex'.pos > lex.pos]_vars
    /\ <>(lex.pc \in {"end", "error"})

\* The variable `\d*` matches the empty string at the space of " \n" (the
\* space is not a delimiter of this schema); the tokens are the StaticText
\* " " and the Newline.
C27_Witness ==
    /\ lex.pc = "end"
    /\ lex.input = <<32, 10>>
    /\ ~has_delimiter(lex.config, 32)
    /\ accepting_tags(initial_active(lex.nfas)) # {}
    /\ Len(lex.out) = 2
    /\ lex.out[1].type = "StaticText"
    /\ lex.out[1].lexeme = <<32>>
    /\ lex.out[2].type = "Newline"


\* ------------------------------------------- bracket union as an alternation

\* A non-negated bracketed class whose set is a Union of literals, ranges
\* and Perl classes: each item is a language of one-character strings.
IsUnionOfSingleCharItems(a) ==
    /\ a.k = "ClassBracketed"
    /\ ~a.f
    /\ a.sub[1].k = "Item.Union"
    /\ \A i \in 1..Len(a.sub[1].sub) :
          a.sub[1].sub[i].k \in {"Item.Literal", "Item.Range", "Item.Perl"}

\* C28: the fragment built for a non-negated bracketed class whose Union
\* items are single-character languages accepts exactly the one-character
\* strings whose character belongs to some item.
C28_BracketUnionIsAlternation ==
    (built = "ok" /\ IsUnionOfSingleCharItems(ast)) =>
        AcceptedWords(nfa) =
            UNION {OneChar(ClassChars(ast.sub[1].sub[i])) :
                      i \in 1..Len(ast.sub[1].sub)}


\* ------------------------------------------- repetition with min = 0, max finite

\* A repetition with min = 0 and a finite max: `x?`, `x{0,n}`, `x{0}`.
IsZeroToMax(a) ==
    /\ a.k = "Repetition"
    /\ get_repetition_range(a).min = 0
    /\ get_repetition_range(a).has_max

\* The words of at most MaxWordLen characters made of k words of L, for
\* some k in 0..max.
UpTo(L, max) == UNION {Pow(L, k) : k \in 0..max}

\* C29: the fragment built for a Repetition with min = 0 and finite max
\* accepts exactly the strings formed by inner repeated k times, for some k
\* in 0..max.
C29_ZeroToMaxLanguage ==
    (built = "ok" /\ IsZeroToMax(ast)) =>
        AcceptedWords(nfa) =
            UpTo(Lang(ast.sub[1]), get_repetition_range(ast).max)


\* ------------------------------------------------------- LogEvent line range

\* C30: a returned LogEvent's line_range is (line number of the first token,
\* line number of the last token) of its token list.
C30_LineRangeFirstLast ==
    ret.kind = "Event" =>
        ret.event.line_range =
            <<ret.event.tokens[1].line,
              ret.event.tokens[Len(ret.event.tokens)].line>>

\* An event of three tokens that begins on line 1 and ends on line 2.
C30_Witness ==
    /\ ret.kind = "Event"
    /\ Len(ret.event.tokens) = 3
    /\ ret.event.tokens[1].line = 1
    /\ ret.event.tokens[3].line = 2
    /\ ret.event.line_range = <<1, 2>>


\* --------------------------------------------------------- token conservation

\* The tokens an Option<Vec<Token>> holds.
Buffered(tk) == IF tk.is_some THEN tk.vec ELSE <<>>

\* C31: on the first stream of a fresh parser every turn of
\* parse_next_log_event conserves the tokens: the buffer followed by the
\* token the lexer delivers is the returned event's tokens followed by the
\* new buffer, and an empty result leaves nothing buffered; so the events
\* returned up to the first empty result, concatenated, are the lexer's
\* token sequence, with none dropped, duplicated or reordered, also across
\* a call that returned an error.
C31_TokenConservation ==
    [][(hist'.op = "parse" /\ hist'.single) =>
          /\ Buffered(tokens)
                 \o (IF token'.kind = "Some" THEN <<token'.token>> ELSE <<>>)
             = (IF pc' = "idle" /\ ret'.kind = "Event"
                THEN ret'.event.tokens ELSE <<>>)
                 \o Buffered(tokens')
          /\ (pc' = "idle" /\ ret'.kind = "Empty") => Buffered(tokens') = <<>>
      ]_vars


\* ------------------------------------------------- nested fragments' language

\* a is built only from Literal, Dot, non-negated Perl class, bracket class
\* of one literal, range or Perl class, Concat, Alternation, indexed capture
\* Group and greedy Repetition.
RECURSIVE IsPlainAst(_)
IsPlainAst(a) ==
    CASE a.k \in {"Literal", "Dot"} -> TRUE
      [] a.k = "ClassPerl" -> ~a.f
      [] a.k = "ClassBracketed" ->
            /\ ~a.f
            /\ a.sub[1].k \in {"Item.Literal", "Item.Range", "Item.Perl"}
            /\ ~a.sub[1].f
      [] a.k \in {"Concat", "Alternation"} ->
            \A i \in 1..Len(a.sub) : IsPlainAst(a.sub[i])
      [] a.k = "Group" -> a.name = "CaptureIndex" /\ IsPlainAst(a.sub[1])
      [] a.k = "Repetition" -> a.f /\ IsPlainAst(a.sub[1])
      [] OTHER -> FALSE

\* C32: for an AST built only from the plain constructs, however nested, the
\* NFA built from (0, 1) accepts exactly the language of the AST: no path
\* leaks from one fragment into another through a shared state.
C32_NestedFragmentsLanguage ==
    (built = "ok" /\ IsPlainAst(ast)) => AcceptedWords(nfa) = Lang(ast)

\* `(a*b*)*` was built: the inner loops start and end on the outer loop's
\* state; "aba" is accepted, "0" is not.
C32_Witness ==
    /\ built = "ok"
    /\ ast = Star(Concat(<<Star(Literal(97)), Star(Literal(98))>>))
    /\ <<97, 98, 97>> \in AcceptedWords(nfa)
    /\ <<48>> \notin AcceptedWords(nfa)


\* ------------------------------------------------------ empty result is stable

\* parse_next_log_event has just returned empty: no call is running and no
\* input was attached since.
ReturnedEmpty == pc = "idle" /\ hist.op = "parse" /\ ret.kind = "Empty"

RECURSIVE EpsilonEdges(_)
RECURSIVE CharEdges(_)
RECURSIVE SumOver(_, _, _)
SumOver(kind, cs, k) ==
    IF k = 0 THEN 0
    ELSE SumOver(kind, cs, k - 1)
             + (IF kind = "epsilon" THEN EpsilonEdges(cs[k]) ELSE CharEdges(cs[k]))

\* The copies of inner a repetition compiles.
RepCopies(a) ==
    RepMin(a) + (IF RepUnbounded(a) THEN 1 ELSE RepTop(a) - RepMin(a))

EpsilonEdges(a) ==
    CASE IsOneEdge(a) -> 0
      [] a.k \in {"Group", "ClassBracketed", "Item.Bracketed"} ->
            EpsilonEdges(a.sub[1])
      [] a.k \in {"Concat", "Item.Union"} -> SumOver("epsilon", a.sub, Len(a.sub))
      [] a.k = "Alternation" ->
            2 * Len(a.sub) + SumOver("epsilon", a.sub, Len(a.sub))
      [] a.k = "Repetition" ->
            1 + (IF RepMin(a) = 0 THEN 1 ELSE 0)
              + (IF RepUnbounded(a) THEN 0 ELSE RepTop(a) - RepMin(a))
              + RepCopies(a) * EpsilonEdges(a.sub[1])

CharEdges(a) ==
    CASE IsOneEdge(a) -> 1
      [] a.k \in {"Group", "ClassBracketed", "Item.Bracketed"} ->
            CharEdges(a.sub[1])
      [] a.k \in {"Concat", "Item.Union", "Alternation"} ->
            SumOver("char", a.sub, Len(a.sub))
      [] a.k = "Repetition" -> RepCopies(a) * CharEdges(a.sub[1])

\* The positions of the transitions of the NFA that carry label 0.
ZeroLabelled(n) ==
    UNION {{<<s, i>> : i \in {j \in 1..Len(n.transitions[s]) :
                                n.transitions[s][j].symbol_onehot_encoding = {}}} :
              s \in DOMAIN n.transitions}

MaxNames == 2

\* State indices of one and of two decimal digits.
StateIndices == {0, 1, 2, 10, 12}

\* The vectors of states: every ordering of every set of at most MaxNames
\* states.
StateVectors ==
    UNION {{v \in [1..n -> StateIndices] :
               \A i, j \in 1..n : i # j => v[i] # v[j]} : n \in 0..MaxNames}

\* usize::to_string: the decimal digits, as bytes.
RECURSIVE to_string(_)
to_string(n) ==
    IF n < 10 THEN <<48 + n>>
    ELSE to_string(n \div 10) \o <<48 + (n % 10)>>

\* Ord for String: byte by byte, a proper prefix first.
RECURSIVE cmp_less(_, _)
cmp_less(a, b) ==
    IF b = <<>> THEN FALSE
    ELSE IF a = <<>> THEN TRUE
    ELSE IF Head(a) # Head(b) THEN Head(a) < Head(b)
    ELSE cmp_less(Tail(a), Tail(b))

\* One string put into a sorted vector, after the strings not above it.
insert_sorted(sorted, str) ==
    LET k == Cardinality({i \in 1..Len(sorted) : ~cmp_less(str, sorted[i])})
    IN  SubSeq(sorted, 1, k) \o <<str>> \o SubSeq(sorted, k + 1, Len(sorted))

\* Vec<String>::sort: the strings in the order of Ord for String.
RECURSIVE sort(_)
sort(v) ==
    IF v = <<>> THEN <<>>
    ELSE insert_sorted(sort(SubSeq(v, 1, Len(v) - 1)), v[Len(v)])

\* [String]::join: the strings with the separator between them.
RECURSIVE join(_, _)
join(v, sep) ==
    IF v = <<>> THEN <<>>
    ELSE IF Len(v) = 1 THEN v[1]
    ELSE v[1] \o sep \o join(Tail(v), sep)

\* The names joined in the order of the vector, never sorted.
get_combined_state_names_unsorted(states) ==
    join([i \in 1..Len(states) |-> to_string(states[i])], <<44>>)

\* states.iter().map(|state| state.0.to_string()), sorted, joined by ",".
get_combined_state_names(states) ==
    join(sort([i \in 1..Len(states) |-> to_string(states[i])]), <<44>>)

\* A call of get_combined_state_names on some vector of states.
GetCombinedStateNames ==
    /\ \E states \in StateVectors :
           names' = [last     |-> [states   |-> states,
                                   result   |-> get_combined_state_names(states),
                                   returned |-> TRUE],
                     previous |-> names.last]
    /\ UNCHANGED <<lpVars, nfaVars, ec, schema, lex>>

InitNames ==
    /\ LogParser_new
    /\ NfaIdle
    /\ AuxIdle

NextNames == GetCombinedStateNames

SpecNames == InitNames /\ [][NextNames]_vars

\* The strings between the commas of a key.
RECURSIVE Split(_)
Split(key) ==
    IF key = <<>> THEN <<>>
    ELSE LET commas == {i \in 1..Len(key) : key[i] = 44}
         IN  IF commas = {} THEN <<key>>
             ELSE LET c == CHOOSE i \in commas : \A j \in commas : i <= j
                  IN  <<SubSeq(key, 1, c - 1)>>
                      \o Split(SubSeq(key, c + 1, Len(key)))

\* The number a string of decimal digits stands for.
RECURSIVE ParseDecimal(_)
ParseDecimal(str) ==
    IF str = <<>> THEN 0
    ELSE 10 * ParseDecimal(SubSeq(str, 1, Len(str) - 1)) + (str[Len(str)] - 48)

\* The state indices a key lists, in the order it lists them.
Listed(key) ==
    LET parts == Split(key)
    IN  [i \in 1..Len(parts) |-> ParseDecimal(parts[i])]

\* The key lists the states of the vector, each once, as decimal numbers.
ListsTheStates(call) ==
    /\ Len(Listed(call.result)) = Len(call.states)
    /\ SetOf(Listed(call.result)) = SetOf(call.states)
    /\ \A i \in 1..Len(Listed(call.result)) :
          Split(call.result)[i] = to_string(Listed(call.result)[i])

\* Two calls returned the same key exactly when they were given the same set.
SameKeyIffSameSet ==
    (names.last.returned /\ names.previous.returned) =>
        ((names.last.result = names.previous.result)
            <=> (SetOf(names.last.states) = SetOf(names.previous.states)))

\* C35 as stated: the key lists the decimal state indices in ascending
\* index order joined by commas, is the same for every ordering of the same
\* set of states, and differs for different sets.
C35_AscendingIndexKey ==
    /\ names.last.returned =>
          /\ ListsTheStates(names.last)
          /\ \A i, j \in 1..Len(Listed(names.last.result)) :
                i < j => Listed(names.last.result)[i] < Listed(names.last.result)[j]
    /\ SameKeyIffSameSet

\* C35, amended: the key lists the decimal state indices joined by commas
\* in the lexicographic order of their decimal strings, which is ascending
\* index order whenever the indices have the same number of digits; it is
\* the same for every ordering of the same set of states and differs for
\* different sets.
C35_StringOrderedKey ==
    /\ names.last.returned =>
          /\ ListsTheStates(names.last)
          /\ \A i, j \in 1..Len(Split(names.last.result)) :
                i < j =>
                    /\ cmp_less(Split(names.last.result)[i],
                                Split(names.last.result)[j])
                    /\ Len(Split(names.last.result)[i])
                         = Len(Split(names.last.result)[j])
                       => Listed(names.last.result)[i]
                            < Listed(names.last.result)[j]
    /\ SameKeyIffSameSet

\* The states 2 and 10 were given in both orders: both keys are "10,2".
C35_Witness ==
    /\ names.previous.returned
    /\ names.previous.states = <<2, 10>>
    /\ names.last.states = <<10, 2>>
    /\ names.last.result = <<49, 48, 44, 50>>
    /\ names.previous.result = names.last.result

====
